---------------------------- MODULE Spec2Model ----------------------------
(***************************************************************************)
(* A model of opencode-usage: the aggregation views of OpenCodeDB          *)
(* (src/src/opencode_usage/db.py) over the message and session tables, and *)
(* the period comparison of the command line (src/src/opencode_usage/      *)
(* cli.py).                                                                *)
(*                                                                         *)
(* Conventions.  A value that may be NULL / None is a sequence of length   *)
(* at most one: None is <<>> and a present value v is <<v>>.  A datetime   *)
(* is [ms, us]: its whole milliseconds since the epoch, rounded down, and  *)
(* the microseconds (0..999) beyond them; a timedelta has the same shape;  *)
(* time.created is in milliseconds.  Cost, a float in the program, is an   *)
(* integer number of cost units of 10^-5; a percentage, a float in the     *)
(* program, is the exact fraction num/den.                                 *)
(***************************************************************************)
EXTENDS Integers, Sequences, FiniteSets, TLC

VARIABLES
    messages,   \* the message table: a sequence of rows (session_id + data)
    sessions,   \* the session table: a function id -> title (title may be None)
    tieRule,    \* how the SQL engine orders rows that tie under ORDER BY
    last,       \* the last call of a view and the rows it returned
    cur,        \* _compute_deltas: the current rows
    prev,       \* _compute_deltas: the previous rows
    deltas,     \* _compute_deltas: None before the call, Some(result) after it
    clock,      \* the wall clock datetime.now() reads
    env,        \* the process environment: local time offset, existing files
    argv,       \* the command line of the invocation of main
    pc,         \* main: the position in its body
    loc,        \* main: its local variables (or the arguments of a function called alone)
    stmt,       \* the statement in flight on a connection, None when there is none
    conns,      \* the number of connections that are open
    queries,    \* the store queries made so far, each with its outcome
    out         \* what main has written to the terminal so far

\* the state of the query layer and of the invocation of main
dbVars == <<messages, sessions, tieRule, last, cur, prev, deltas>>

cliVars == <<clock, env, argv, pc, loc, stmt, conns, queries, out>>

vars == <<messages, sessions, tieRule, last, cur, prev, deltas,
          clock, env, argv, pc, loc, stmt, conns, queries, out>>

-----------------------------------------------------------------------------
(* Optional values *)

None == <<>>

Some(v) == <<v>>

Min(a, b) == IF a <= b THEN a ELSE b

RECURSIVE SumIdx(_, _)
SumIdx(I, f) ==
    IF I = {} THEN 0
    ELSE LET i == CHOOSE x \in I : TRUE IN f[i] + SumIdx(I \ {i}, f)

RECURSIVE SetToSeq(_)
SetToSeq(S) ==
    IF S = {} THEN <<>>
    ELSE LET x == CHOOSE y \in S : TRUE IN <<x>> \o SetToSeq(S \ {x})

-----------------------------------------------------------------------------
(* Bounds *)

MaxMsgs == 2

MaxLimit == 2

MaxCur == 1

MaxPrev == 2

MaxRows == 2

MaxStore == 3

-----------------------------------------------------------------------------
(* Time *)

SecPerDay == 24 * 60 * 60

MsPerDay == SecPerDay * 1000

\* three instants (epoch ms): the last ms of day 0, the first of day 1, one second later
T0 == MsPerDay - 1

T1 == MsPerDay

T2 == MsPerDay + 1000

\* the offsets of local time to UTC (seconds) the querying process may run under
TzOffsets == {0, -3600}

DateTime(ms, us) == [ms |-> ms, us |-> us]

\* a timedelta, and the arithmetic of datetime and timedelta: a - b
TimeDelta(ms, us) == [ms |-> ms, us |-> us]

Minus(a, b) ==
    IF a.us >= b.us THEN [ms |-> a.ms - b.ms, us |-> a.us - b.us]
    ELSE [ms |-> a.ms - b.ms - 1, us |-> a.us - b.us + 1000]

\* int(dt.timestamp() * 1000): int() cuts the fraction, towards zero
ToMs(dt) == IF dt.ms < 0 /\ dt.us > 0 THEN dt.ms + 1 ELSE dt.ms

\* the calendar dates around the epoch, index 1 is day -1
DateNames ==
    <<"1969-12-31", "1970-01-01", "1970-01-02", "1970-01-03", "1970-01-04">>

\* date(ms / 1000, 'unixepoch', 'localtime')
SqlDate(ms, tz) == DateNames[(((ms \div 1000) + tz) \div SecPerDay) + 2]

-----------------------------------------------------------------------------
(* Strings: the BINARY collation of the strings that occur as group keys *)

Collation ==
    << "", "(unknown)", "1969-12-31", "1970-01-01", "1970-01-02", "1970-01-03",
       "1970-01-04", "T", "a", "a:b", "b", "m1", "m2", "p1", "p2", "s1", "s2", "s3", "total" >>

StrRank(s) == CHOOSE i \in 1..Len(Collation) : Collation[i] = s

\* NULL sorts before every string
OptRank(v) == IF v = None THEN 0 ELSE StrRank(v[1])

\* lexicographic order of two key tuples of the same length
TupLess(a, b) ==
    \E i \in 1..Len(a) :
        /\ OptRank(a[i]) < OptRank(b[i])
        /\ \A j \in 1..(i - 1) : OptRank(a[j]) = OptRank(b[j])


-----------------------------------------------------------------------------
(* Data model: TokenStats and UsageRow *)

TokenStats(input, output, reasoning, cache_read, cache_write, total) ==
    [input |-> input, output |-> output, reasoning |-> reasoning,
     cache_read |-> cache_read, cache_write |-> cache_write, total |-> total]

UsageRow(label, calls, tokens, cost, detail) ==
    [label |-> label, calls |-> calls, tokens |-> tokens, cost |-> cost,
     detail |-> detail]

\* UsageRow(label=...): every other field at its default
DefaultRow(label) == UsageRow(label, 0, TokenStats(0, 0, 0, 0, 0, 0), 0, None)

-----------------------------------------------------------------------------
(* Query helpers *)

\* the WHERE clause without its test of tokens.total
QualifiesRoleOnly(m) == m.role = "assistant"

\* the WHERE clause with a test that the model is known
QualifiesKnownModel(m) ==
    m.role = "assistant" /\ m.total # None /\ m.modelID # None

\* WHERE json_extract(data, '$.role') = 'assistant'
\*   AND json_extract(data, '$.tokens.total') IS NOT NULL
Qualifies(m) == m.role = "assistant" /\ m.total # None

\* the clauses of _time_filter; a comparison with a NULL time.created is not true
TimeFilterClosedUntil(m, since, until) ==
    /\ since # None => (m.created # None /\ m.created[1] >= ToMs(since[1]))
    /\ until # None => (m.created # None /\ m.created[1] <= ToMs(until[1]))

_time_filter(m, since, until) ==
    /\ since # None => (m.created # None /\ m.created[1] >= ToMs(since[1]))
    /\ until # None => (m.created # None /\ m.created[1] < ToMs(until[1]))

\* the rows of message the WHERE clause keeps
Selected(since, until) ==
    {i \in 1..Len(messages) :
        Qualifies(messages[i]) /\ _time_filter(messages[i], since, until)}

\* SUM(json_extract(data, field)): NULL values are skipped, NULL when there is none
SqlSum(I, field) ==
    LET nn == {i \in I : messages[i][field] # None}
    IN  IF nn = {} THEN None
        ELSE Some(SumIdx(nn, [i \in nn |-> messages[i][field][1]]))

\* COALESCE(v, d)
Coalesce(v, d) == IF v # None THEN v ELSE d

\* the select list shared by the three statements: COUNT(*) and the seven
\* COALESCE(SUM(...), 0) columns of one group I, with the group's key
Aggregate(key, I) ==
    [key          |-> key,
     calls        |-> Cardinality(I),
     input_tokens     |-> Coalesce(SqlSum(I, "input"), Some(0))[1],
     output_tokens    |-> Coalesce(SqlSum(I, "output"), Some(0))[1],
     reasoning_tokens |-> Coalesce(SqlSum(I, "reasoning"), Some(0))[1],
     cache_read   |-> Coalesce(SqlSum(I, "cache_read"), Some(0))[1],
     cache_write  |-> Coalesce(SqlSum(I, "cache_write"), Some(0))[1],
     total_tokens |-> Coalesce(SqlSum(I, "total"), Some(0))[1],
     cost         |-> Coalesce(SqlSum(I, "cost"), Some(0))[1]]

\* GROUP BY: one aggregated row per key tuple, the groups in the order of the
\* engine (ascending or descending key order, the engine's choice)
GroupBy(I, key) ==
    LET keys   == {key[i] : i \in I}
        pos(k) == IF tieRule = "asc"
                  THEN Cardinality({k2 \in keys : TupLess(k2, k)}) + 1
                  ELSE Cardinality({k2 \in keys : TupLess(k, k2)}) + 1
    IN  [p \in 1..Cardinality(keys) |->
            LET k == CHOOSE k2 \in keys : pos(k2) = p
            IN  Aggregate(k, {i \in I : key[i] = k})]

\* ORDER BY total_tokens DESC
TotalDesc(a, b) == a.total_tokens > b.total_tokens

\* ORDER BY label DESC
LabelDesc(a, b) == OptRank(a.key[1]) > OptRank(b.key[1])

\* the ORDER BY of the other views in by_agent
AgentIgnored(a, b) == a.total_tokens > b.total_tokens

\* ORDER BY agent, total_tokens DESC
AgentThenTotalDesc(a, b) ==
    \/ OptRank(a.key[1]) < OptRank(b.key[1])
    \/ (OptRank(a.key[1]) = OptRank(b.key[1]) /\ a.total_tokens > b.total_tokens)

\* whether row a comes before row b under the ORDER BY clause order
Before(order, a, b) ==
    IF order = "label DESC" THEN LabelDesc(a, b)
    ELSE IF order = "agent, total_tokens DESC" THEN AgentThenTotalDesc(a, b)
    ELSE TotalDesc(a, b)

\* the statement without its ORDER BY clause: the groups in the engine's order
EngineOrder(rows, order) == rows

\* ORDER BY: the rows in that order, rows that tie keep the engine's order
OrderBy(rows, order) ==
    LET n == Len(rows)
        rank(i) == Cardinality({j \in 1..n :
                        \/ Before(order, rows[j], rows[i])
                        \/ (~Before(order, rows[i], rows[j]) /\ j < i)}) + 1
    IN  [p \in 1..n |-> rows[CHOOSE i \in 1..n : rank(i) = p]]

\* the limit appended whenever it is not None: LIMIT 0 returns no row
LimitZeroIsEmpty(rows, limit) ==
    IF limit = None \/ limit[1] < 0 THEN rows
    ELSE SubSeq(rows, 1, Min(limit[1], Len(rows)))

\* if limit: sql += f" LIMIT {limit}"; a negative LIMIT is no limit in SQLite
ApplyLimit(rows, limit) ==
    IF limit = None \/ limit[1] = 0 THEN rows
    ELSE IF limit[1] < 0 THEN rows
    ELSE SubSeq(rows, 1, Min(limit[1], Len(rows)))

\* x or default: None and the empty string are falsy
OrElse(v, d) == IF v = None \/ v[1] = "" THEN d ELSE v[1]

\* the UsageRow built from one result row
ToUsageRow(r, label, detail) ==
    UsageRow(label, r.calls,
             TokenStats(r.input_tokens, r.output_tokens, r.reasoning_tokens,
                        r.cache_read, r.cache_write, r.total_tokens),
             r.cost, detail)

-----------------------------------------------------------------------------
(* OpenCodeDB: the views *)

\* every message row
AllRows == 1..Len(messages)

\* _base_query grouping by the label after the placeholder is put in
_base_query_group_by_placeholder(group_expr, since, until, order, limit) ==
    LET groups  == GroupBy(Selected(since, until),
                           [i \in AllRows |->
                               <<Some(OrElse(group_expr[i], "(unknown)"))>>])
        ordered == OrderBy(groups, order)
        rows    == ApplyLimit(ordered, limit)
    IN  [p \in 1..Len(rows) |-> ToUsageRow(rows[p], rows[p].key[1][1], None)]

\* _base_query(group_expr, since, until, order, limit): group_expr[i] is the
\* value of the group expression on message row i, order the ORDER BY clause
_base_query(group_expr, since, until, order, limit) ==
    LET groups  == GroupBy(Selected(since, until),
                           [i \in AllRows |-> <<group_expr[i]>>])
        ordered == OrderBy(groups, order)
        rows    == ApplyLimit(ordered, limit)
    IN  [p \in 1..Len(rows) |->
            ToUsageRow(rows[p], OrElse(rows[p].key[1], "(unknown)"), None)]

\* date(json_extract(data, '$.time.created') / 1000, 'unixepoch', 'localtime')
DayExpr(i, tz) ==
    IF messages[i].created = None THEN None
    ELSE Some(SqlDate(messages[i].created[1], tz))

daily(since, until, limit, tz) ==
    _base_query([i \in AllRows |-> DayExpr(i, tz)], since, until,
                "label DESC", limit)

by_model(since, until, limit) ==
    _base_query([i \in AllRows |-> messages[i].modelID], since, until,
                "total_tokens DESC", limit)

by_provider(since, until, limit) ==
    _base_query([i \in AllRows |-> messages[i].providerID], since, until,
                "total_tokens DESC", limit)

\* by_agent with GROUP BY agent alone, the model taken from one row of the group
by_agent_group_by_agent(since, until, limit) ==
    LET I       == Selected(since, until)
        groups  == GroupBy(I, [i \in AllRows |-> <<messages[i].agent>>])
        ordered == OrderBy(groups, "agent, total_tokens DESC")
        rows    == ApplyLimit(ordered, limit)
    IN  [p \in 1..Len(rows) |->
            ToUsageRow(rows[p], OrElse(rows[p].key[1], "(unknown)"),
                       messages[CHOOSE i \in I :
                                    messages[i].agent = rows[p].key[1]].modelID)]

by_agent(since, until, limit) ==
    LET groups  == GroupBy(Selected(since, until),
                           [i \in AllRows |->
                               <<messages[i].agent, messages[i].modelID>>])
        ordered == OrderBy(groups, "agent, total_tokens DESC")
        rows    == ApplyLimit(ordered, limit)
    IN  [p \in 1..Len(rows) |->
            ToUsageRow(rows[p], OrElse(rows[p].key[1], "(unknown)"),
                       rows[p].key[2])]

\* LEFT JOIN session s ON m.session_id = s.id: the title of the session of
\* message row i, NULL when no session row joins
JoinedTitle(sid) ==
    IF sid # None /\ sid[1] \in DOMAIN sessions THEN sessions[sid[1]] ELSE None

\* by_session with JOIN in place of LEFT JOIN
by_session_inner_join(since, until, limit) ==
    LET joined  == {i \in Selected(since, until) :
                        /\ messages[i].session_id # None
                        /\ messages[i].session_id[1] \in DOMAIN sessions}
        groups  == GroupBy(joined, [i \in AllRows |-> <<messages[i].session_id>>])
        ordered == OrderBy(groups, "total_tokens DESC")
        rows    == ApplyLimit(ordered, limit)
    IN  [p \in 1..Len(rows) |->
            ToUsageRow(rows[p],
                       OrElse(Coalesce(JoinedTitle(rows[p].key[1]), rows[p].key[1]),
                              "(untitled)"),
                       None)]

\* by_session with GROUP BY label, the title or the session id
by_session_group_by_label(since, until, limit) ==
    LET groups  == GroupBy(Selected(since, until),
                           [i \in AllRows |->
                               <<Coalesce(JoinedTitle(messages[i].session_id),
                                          messages[i].session_id)>>])
        ordered == OrderBy(groups, "total_tokens DESC")
        rows    == ApplyLimit(ordered, limit)
    IN  [p \in 1..Len(rows) |->
            ToUsageRow(rows[p], OrElse(rows[p].key[1], "(untitled)"), None)]

by_session(since, until, limit) ==
    LET groups  == GroupBy(Selected(since, until),
                           [i \in AllRows |-> <<messages[i].session_id>>])
        ordered == OrderBy(groups, "total_tokens DESC")
        rows    == ApplyLimit(ordered, limit)
    IN  [p \in 1..Len(rows) |->
            ToUsageRow(rows[p],
                       OrElse(Coalesce(JoinedTitle(rows[p].key[1]), rows[p].key[1]),
                              "(untitled)"),
                       None)]

\* totals whose fallback row goes through the placeholder of the other views
totals_placeholder(since, until) ==
    LET rows == _base_query([i \in AllRows |-> Some("total")], since, until,
                            "total_tokens DESC", None)
    IN  IF rows # <<>> THEN rows[1] ELSE DefaultRow("(unknown)")

totals(since, until) ==
    LET rows == _base_query([i \in AllRows |-> Some("total")], since, until,
                            "total_tokens DESC", None)
    IN  IF rows # <<>> THEN rows[1] ELSE DefaultRow("total")

-----------------------------------------------------------------------------
(* The calls of the views: each records the call and what it returned *)

NoCall ==
    [op |-> "none", since |-> None, until |-> None, limit |-> None, tz |-> 0,
     rows |-> <<>>]

Call(op, since, until, limit, tz, rows) ==
    [op |-> op, since |-> since, until |-> until, limit |-> limit, tz |-> tz,
     rows |-> rows]

Daily(S, U, L) ==
    \E since \in S, until \in U, limit \in L, tz \in TzOffsets :
        /\ last' = Call("daily", since, until, limit, tz,
                        daily(since, until, limit, tz))
        /\ UNCHANGED <<messages, sessions, tieRule, cur, prev, deltas>>
        /\ UNCHANGED cliVars

ByModel(S, U, L) ==
    \E since \in S, until \in U, limit \in L :
        /\ last' = Call("by_model", since, until, limit, 0,
                        by_model(since, until, limit))
        /\ UNCHANGED <<messages, sessions, tieRule, cur, prev, deltas>>
        /\ UNCHANGED cliVars

ByAgent(S, U, L) ==
    \E since \in S, until \in U, limit \in L :
        /\ last' = Call("by_agent", since, until, limit, 0,
                        by_agent(since, until, limit))
        /\ UNCHANGED <<messages, sessions, tieRule, cur, prev, deltas>>
        /\ UNCHANGED cliVars

ByProvider(S, U, L) ==
    \E since \in S, until \in U, limit \in L :
        /\ last' = Call("by_provider", since, until, limit, 0,
                        by_provider(since, until, limit))
        /\ UNCHANGED <<messages, sessions, tieRule, cur, prev, deltas>>
        /\ UNCHANGED cliVars

BySession(S, U, L) ==
    \E since \in S, until \in U, limit \in L :
        /\ last' = Call("by_session", since, until, limit, 0,
                        by_session(since, until, limit))
        /\ UNCHANGED <<messages, sessions, tieRule, cur, prev, deltas>>
        /\ UNCHANGED cliVars

Totals(S, U) ==
    \E since \in S, until \in U :
        /\ last' = Call("totals", since, until, None, 0, <<totals(since, until)>>)
        /\ UNCHANGED <<messages, sessions, tieRule, cur, prev, deltas>>
        /\ UNCHANGED cliVars

-----------------------------------------------------------------------------
(* The stores the specifications start from *)

\* the token and cost fields of a message: all present, only tokens.total
\* present, or tokens.total missing
TokFull(t) ==
    [input |-> Some(3), output |-> Some(1), reasoning |-> Some(1),
     cache_read |-> Some(2), cache_write |-> Some(1), total |-> Some(t),
     cost |-> Some(4)]

TokSparse(t) ==
    [input |-> None, output |-> None, reasoning |-> None, cache_read |-> None,
     cache_write |-> None, total |-> Some(t), cost |-> None]

TokNoTotal ==
    [input |-> Some(3), output |-> Some(1), reasoning |-> None,
     cache_read |-> Some(2), cache_write |-> Some(1), total |-> None,
     cost |-> Some(4)]

Keys(session_id, modelID, agent, providerID) ==
    [session_id |-> session_id, modelID |-> modelID, agent |-> agent,
     providerID |-> providerID]

\* the messages with a role, token fields, a creation time and keys of the sets
Msgs(Roles, Toks, Times, Ks) ==
    {[role |-> r, created |-> c] @@ t @@ k :
        r \in Roles, t \in Toks, c \in Times, k \in Ks}

\* the tables of at most n rows over D, one for each multiset of rows: the
\* views do not depend on the order of the rows of a table, nor prev_map on the
\* order of the previous rows, so one sequence stands for its permutations
Stores(D, n) ==
    LET d == SetToSeq(D)
    IN  UNION {{[i \in 1..k |-> d[f[i]]] :
                   f \in {g \in [1..k -> 1..Len(d)] :
                             \A i \in 1..(k - 1) : g[i] <= g[i + 1]}} :
               k \in 0..n}

Limits == {None} \cup {Some(n) : n \in -1..MaxLimit}

\* no invocation of main: the specifications of the query layer alone
NoInvocation ==
    /\ clock = DateTime(0, 0)
    /\ env = [tz |-> 0, files |-> {}]
    /\ argv = <<>>
    /\ pc = "none"
    /\ loc = <<>>
    /\ stmt = None
    /\ conns = 0
    /\ queries = <<>>
    /\ out = <<>>

InitOver(D, SessionTables) ==
    /\ messages \in Stores(D, MaxMsgs)
    /\ sessions \in SessionTables
    /\ tieRule \in {"asc", "desc"}
    /\ last = NoCall
    /\ cur = <<>>
    /\ prev = <<>>
    /\ deltas = None
    /\ NoInvocation

-----------------------------------------------------------------------------
(* Spec: the views over time windows *)

WindowMsgs ==
    Msgs({"assistant"}, {TokFull(5), TokNoTotal},
         {Some(T0), Some(T1), Some(T2)},
         {Keys(Some("s1"), Some("m1"), Some("a"), Some("p1")),
          Keys(Some("s2"), Some("m2"), Some("b"), Some("p2"))})

\* since and until: absent, exactly T1, and half a
\* millisecond after T1; absent, exactly T1 and exactly T2
Sinces == {None, Some(DateTime(T1, 0)), Some(DateTime(T1, 500))}

Untils == {None, Some(DateTime(T1, 0)), Some(DateTime(T2, 0))}

Init == InitOver(WindowMsgs, {[id \in {"s1"} |-> Some("T")]})

Next ==
    \/ Daily(Sinces, Untils, {None})
    \/ ByModel(Sinces, Untils, {None})
    \/ ByAgent(Sinces, Untils, {None})
    \/ ByProvider(Sinces, Untils, {None})
    \/ BySession(Sinces, Untils, {None})
    \/ Totals(Sinces, Untils)

Spec == Init /\ [][Next]_vars

-----------------------------------------------------------------------------
(* What the claims speak of, stated on the tables and the recorded call *)

GroupedOps == {"daily", "by_model", "by_agent", "by_provider", "by_session"}

RECURSIVE SumSeq(_)
SumSeq(q) == IF q = <<>> THEN 0 ELSE q[1] + SumSeq(Tail(q))

RowCalls(rows) == SumSeq([p \in 1..Len(rows) |-> rows[p].calls])

RowTokens(rows, f) == SumSeq([p \in 1..Len(rows) |-> rows[p].tokens[f]])

RowCost(rows) == SumSeq([p \in 1..Len(rows) |-> rows[p].cost])

\* the sum of a field over the message rows I, a missing value counting 0
FieldSum(I, f) ==
    SumIdx(I, [i \in I |-> IF messages[i][f] = None THEN 0 ELSE messages[i][f][1]])

\* a record with role "assistant" and tokens.total present
Counted(i) == messages[i].role = "assistant" /\ messages[i].total # None

\* the half-open window [since, until) on time.created, in epoch milliseconds
InWindow(i, since, until) ==
    /\ since # None =>
          (messages[i].created # None /\ messages[i].created[1] >= since[1].ms)
    /\ until # None =>
          (messages[i].created # None /\ messages[i].created[1] < until[1].ms)

CountedIn(since, until) ==
    {i \in 1..Len(messages) : Counted(i) /\ InWindow(i, since, until)}

TokenFields ==
    {"input", "output", "reasoning", "cache_read", "cache_write", "total"}

ZeroTokens == [f \in TokenFields |-> 0]

\* C2: for every grouped view called without a limit, the sum of tokens.total
\* over the returned rows is tokens.total of totals() over the same window.
C2_SumEqualsTotals ==
    (last.op \in GroupedOps /\ last.limit = None) =>
        RowTokens(last.rows, "total") = totals(last.since, last.until).tokens.total

\* a windowed grouped call that returned two groups while the table holds a
\* message without a session row
C2_Witness ==
    /\ last.op = "by_session"
    /\ last.since # None
    /\ Len(last.rows) = 2
    /\ \E i \in 1..Len(messages) : messages[i].session_id = Some("s2")

\* C3: for every view a qualifying record is included iff time.created >= since
\* (when since is given) and time.created < until (when until is given), the
\* bounds taken in epoch milliseconds.
C3_HalfOpenWindow ==
    last.op # "none" =>
        LET I == CountedIn(last.since, last.until)
        IN  /\ RowCalls(last.rows) = Cardinality(I)
            /\ RowTokens(last.rows, "total") = FieldSum(I, "total")

\* a call over [T1, T2) on a table with a qualifying record at T1 and one at
\* T2: the first is counted, the second is not
C3_Witness ==
    /\ last.op = "daily"
    /\ last.since = Some(DateTime(T1, 0))
    /\ last.until = Some(DateTime(T2, 0))
    /\ \E i, j \in 1..Len(messages) :
          /\ Counted(i) /\ messages[i].created = Some(T1)
          /\ Counted(j) /\ messages[j].created = Some(T2)
    /\ RowCalls(last.rows) = 1

\* C4: totals() returns exactly one row, labelled "total"; over a window with
\* no qualifying record that row has calls 0, every token field 0 and cost 0,
\* while a grouped view over such a window returns the empty sequence.
C4_EmptyWindow ==
    /\ last.op = "totals" =>
          /\ Len(last.rows) = 1
          /\ last.rows[1].label = "total"
          /\ CountedIn(last.since, last.until) = {} =>
                /\ last.rows[1].calls = 0
                /\ last.rows[1].tokens = ZeroTokens
                /\ last.rows[1].cost = 0
    /\ (last.op \in GroupedOps /\ CountedIn(last.since, last.until) = {}) =>
          last.rows = <<>>

\* totals() over a window that holds no qualifying record of a table that
\* holds one
C4_Witness ==
    /\ last.op = "totals"
    /\ \E i \in 1..Len(messages) : Counted(i)
    /\ CountedIn(last.since, last.until) = {}
    /\ last.rows[1].calls = 0

-----------------------------------------------------------------------------
(* SpecInclusion: every view over the whole table, roles and token fields vary *)

InclusionMsgs ==
    Msgs({"assistant", "user"}, {TokFull(5), TokSparse(7), TokNoTotal},
         {Some(T1), None},
         {Keys(Some("s1"), Some("m1"), Some("a"), Some("p1")),
          Keys(Some("s2"), None, None, None)})

InitInclusion == InitOver(InclusionMsgs, {[id \in {"s1"} |-> Some("T")]})

NextInclusion ==
    \/ Daily({None}, {None}, {None})
    \/ ByModel({None}, {None}, {None})
    \/ ByAgent({None}, {None}, {None})
    \/ ByProvider({None}, {None}, {None})
    \/ BySession({None}, {None}, {None})
    \/ Totals({None}, {None})

SpecInclusion == InitInclusion /\ [][NextInclusion]_vars

\* C1: for every view called with no window and no limit, the calls, the six
\* token sums and the cost returned are those of exactly the records whose role
\* is "assistant" and whose tokens.total is present; every other record
\* contributes nothing.
C1_InclusionPredicate ==
    (last.op # "none" /\ last.since = None /\ last.until = None
        /\ last.limit = None) =>
        LET I == {i \in 1..Len(messages) : Counted(i)}
        IN  /\ RowCalls(last.rows) = Cardinality(I)
            /\ \A f \in TokenFields : RowTokens(last.rows, f) = FieldSum(I, f)
            /\ RowCost(last.rows) = FieldSum(I, "cost")

\* totals() on a table that holds an assistant record without tokens.total and
\* a user record with it: neither is counted
C1_Witness ==
    /\ last.op = "totals"
    /\ \E i, j \in 1..Len(messages) :
          /\ messages[i].role = "assistant" /\ messages[i].total = None
          /\ messages[j].role = "user" /\ messages[j].total # None
    /\ last.rows[1].calls = 0

-----------------------------------------------------------------------------
(* SpecKeys: by_model, by_agent and by_provider over group keys that may be *)
(* missing or empty                                                         *)

KeysMsgs ==
    Msgs({"assistant"}, {TokFull(5), TokNoTotal}, {Some(T1)},
         {Keys(Some("s1"), m, a, p) :
             m \in {None, Some("m1"), Some("m2")},
             a \in {None, Some(""), Some("a")},
             p \in {None, Some("p1")}})

InitKeys == InitOver(KeysMsgs, {[id \in {"s1"} |-> Some("T")]})

NextKeys ==
    \/ ByModel({None}, {None}, {None})
    \/ ByAgent({None}, {None}, {None})
    \/ ByProvider({None}, {None}, {None})

SpecKeys == InitKeys /\ [][NextKeys]_vars

\* the column a view groups by (by_agent: the agent)
KeyOf(op, i) ==
    IF op = "by_model" THEN messages[i].modelID
    ELSE IF op = "by_provider" THEN messages[i].providerID
    ELSE messages[i].agent

\* the groups of a view: its distinct keys, for by_agent the pairs agent, model
GroupsOf(op, I) ==
    IF op = "by_agent" THEN {<<messages[i].agent, messages[i].modelID>> : i \in I}
    ELSE {<<KeyOf(op, i)>> : i \in I}

\* some row with this label and detail carries the calls and token sums of N
HasRowFor(rows, label, details, N) ==
    \E p \in 1..Len(rows) :
        /\ rows[p].label = label
        /\ rows[p].detail \in details
        /\ rows[p].calls = Cardinality(N)
        /\ \A f \in TokenFields : rows[p].tokens[f] = FieldSum(N, f)

\* C5 as claimed: in by_model, by_provider and by_agent the qualifying records
\* whose group key is null form one row labelled "(unknown)" whose calls and
\* token sums count exactly those records.
C5_NullKeyOneRow ==
    (last.op \in {"by_model", "by_provider", "by_agent"} /\ last.limit = None) =>
        LET I == CountedIn(last.since, last.until)
            N == {i \in I : KeyOf(last.op, i) = None}
        IN  N # {} =>
                HasRowFor(last.rows, "(unknown)",
                          {None, Some("m1"), Some("m2")}, N)

\* C5 as amended: no group is dropped or merged (one row per group); in
\* by_model and by_provider the records with a null key form one row labelled
\* "(unknown)" that counts exactly them; in by_agent the records with a null
\* agent form one row labelled "(unknown)" per model they use, each counting
\* the records of that model.
C5_NullKeyGroups ==
    (last.op \in {"by_model", "by_provider", "by_agent"} /\ last.limit = None) =>
        LET I == CountedIn(last.since, last.until)
            N == {i \in I : KeyOf(last.op, i) = None}
        IN  /\ Len(last.rows) = Cardinality(GroupsOf(last.op, I))
            /\ (last.op # "by_agent" /\ N # {}) =>
                  HasRowFor(last.rows, "(unknown)", {None}, N)
            /\ last.op = "by_agent" =>
                  \A m \in {messages[i].modelID : i \in N} :
                      HasRowFor(last.rows, "(unknown)", {m},
                                {i \in N : messages[i].modelID = m})

\* by_agent on a table whose two qualifying records have no agent and two
\* different models: two rows labelled "(unknown)"
C5_Witness ==
    /\ last.op = "by_agent"
    /\ Len(last.rows) = 2
    /\ \A p \in 1..2 : last.rows[p].label = "(unknown)" /\ last.rows[p].calls = 1
    /\ \A i \in 1..Len(messages) : messages[i].agent = None

-----------------------------------------------------------------------------
(* SpecSession: by_session over session tables whose titles may be missing, *)
(* null, empty or shared                                                    *)

SessionMsgs ==
    Msgs({"assistant"}, {TokFull(5), TokFull(7), TokNoTotal}, {Some(T1)},
         {Keys(sid, Some("m1"), Some("a"), Some("p1")) :
             sid \in {None, Some("s1"), Some("s2"), Some("s3")}})

\* the session tables over the ids s1 and s2: a session has no row, or a row
\* with a null, an empty or the title "T"
SessionTables ==
    UNION {[ids -> {None, Some(""), Some("T")}] : ids \in SUBSET {"s1", "s2"}}

InitSession == InitOver(SessionMsgs, SessionTables)

NextSession == BySession({None}, {None}, {None})

SpecSession == InitSession /\ [][NextSession]_vars

\* the title of a session id, None when it is null or the session has no row
TitleOf(sid) ==
    IF sid # None /\ sid[1] \in DOMAIN sessions THEN sessions[sid[1]] ELSE None

\* C6 as claimed: the label is the title whenever the session row has a
\* non-null title, whatever its value, and the raw session id otherwise
ClaimedSessionLabel(sid) == IF TitleOf(sid) # None THEN TitleOf(sid)[1] ELSE sid[1]

\* C6 as amended: the title when it is non-null and not empty; "(untitled)"
\* when the title is the empty string; without a title the session id, or
\* "(untitled)" when the id is null or empty
SessionLabel(sid) ==
    IF TitleOf(sid) # None
    THEN (IF TitleOf(sid)[1] = "" THEN "(untitled)" ELSE TitleOf(sid)[1])
    ELSE IF sid = None \/ sid[1] = "" THEN "(untitled)" ELSE sid[1]

\* C6 as claimed: by_session yields one row per distinct session id, and the
\* row of a session id is labelled by the session's title whenever that title
\* is non-null (whatever its value) and by the raw session id otherwise.
C6_LabelIsTitleOrId ==
    (last.op = "by_session" /\ last.limit = None) =>
        LET I == CountedIn(last.since, last.until)
            S == {messages[i].session_id : i \in I}
        IN  /\ Len(last.rows) = Cardinality(S)
            /\ \A sid \in S \ {None} :
                  \E p \in 1..Len(last.rows) :
                      /\ last.rows[p].label = ClaimedSessionLabel(sid)
                      /\ last.rows[p].calls =
                            Cardinality({i \in I : messages[i].session_id = sid})

\* C6 as amended: by_session yields one row per distinct session id, also when
\* titles are equal or null; the rows are labelled by SessionLabel: for every
\* label, as many rows carry it as session ids have it, and these rows count
\* the records of these sessions.
C6_GroupsBySessionId ==
    (last.op = "by_session" /\ last.limit = None) =>
        LET I == CountedIn(last.since, last.until)
            S == {messages[i].session_id : i \in I}
            L == {SessionLabel(sid) : sid \in S}
                     \cup {last.rows[p].label : p \in 1..Len(last.rows)}
        IN  /\ Len(last.rows) = Cardinality(S)
            /\ \A l \in L :
                  LET P == {p \in 1..Len(last.rows) : last.rows[p].label = l}
                      G == {i \in I : SessionLabel(messages[i].session_id) = l}
                  IN  /\ Cardinality(P) =
                            Cardinality({sid \in S : SessionLabel(sid) = l})
                      /\ SumIdx(P, [p \in P |-> last.rows[p].calls])
                            = Cardinality(G)
                      /\ SumIdx(P, [p \in P |-> last.rows[p].tokens.total])
                            = FieldSum(G, "total")

\* by_session on a table with a record in each of two sessions that share the
\* title "T": two rows, both labelled "T"
C6_Witness ==
    /\ last.op = "by_session"
    /\ Len(last.rows) = 2
    /\ last.rows[1].label = "T" /\ last.rows[2].label = "T"
    /\ \E i, j \in 1..Len(messages) :
          messages[i].session_id = Some("s1") /\ messages[j].session_id = Some("s2")

-----------------------------------------------------------------------------
(* SpecLimit: the grouped views under every limit *)

LimitMsgs ==
    Msgs({"assistant"}, {TokFull(5), TokFull(7)}, {Some(T0), Some(T2)},
         {Keys(Some("s1"), Some("m1"), Some("a"), Some("p1")),
          Keys(Some("s2"), Some("m2"), Some("a"), Some("p2")),
          Keys(Some("s1"), Some("m2"), Some("b"), Some("p1"))})

InitLimit == InitOver(LimitMsgs, {[id \in {"s1"} |-> Some("T")]})

NextLimit ==
    \/ Daily({None}, {None}, Limits)
    \/ ByModel({None}, {None}, Limits)
    \/ ByAgent({None}, {None}, Limits)
    \/ ByProvider({None}, {None}, Limits)
    \/ BySession({None}, {None}, Limits)

SpecLimit == InitLimit /\ [][NextLimit]_vars

\* what the recorded call returns when it is made with another limit
SameCall(c, limit) ==
    IF c.op = "daily" THEN daily(c.since, c.until, limit, c.tz)
    ELSE IF c.op = "by_model" THEN by_model(c.since, c.until, limit)
    ELSE IF c.op = "by_agent" THEN by_agent(c.since, c.until, limit)
    ELSE IF c.op = "by_provider" THEN by_provider(c.since, c.until, limit)
    ELSE by_session(c.since, c.until, limit)

\* C8: for every grouped view a limit that is absent, 0 or negative returns all
\* groups, and a limit n >= 1 returns the first min(n, number of groups) rows of
\* what the same call returns without a limit, in the same order.
C8_LimitClamping ==
    last.op \in GroupedOps =>
        LET full == SameCall(last, None)
            I    == CountedIn(last.since, last.until)
        IN  IF last.limit = None \/ last.limit[1] <= 0
            THEN /\ last.rows = full
                 /\ RowCalls(last.rows) = Cardinality(I)
                 /\ I # {} => Len(last.rows) >= 1
            ELSE /\ Len(last.rows) = Min(last.limit[1], Len(full))
                 /\ last.rows = SubSeq(full, 1, Len(last.rows))

\* a call with limit 1 that returns the first of two groups
C8_Witness ==
    /\ last.op \in GroupedOps
    /\ last.limit = Some(1)
    /\ Len(last.rows) = 1
    /\ Len(SameCall(last, None)) = 2

-----------------------------------------------------------------------------
(* cli.py: the period comparison *)

\* key = f"{r.label}:{r.detail}" if r.detail else r.label: a detail that is
\* None or the empty string is falsy
RowKey(r) ==
    IF r.detail # None /\ r.detail[1] # "" THEN r.label \o ":" \o r.detail[1]
    ELSE r.label

\* prev_map after the first loop: key -> sum of tokens.total over the previous
\* rows with that key
PrevMap(previous) ==
    LET keys == {RowKey(previous[j]) : j \in 1..Len(previous)}
    IN  [k \in keys |->
            LET J == {j \in 1..Len(previous) : RowKey(previous[j]) = k}
            IN  SumIdx(J, [j \in J |-> previous[j].tokens.total])]

\* prev_map.get(key)
MapGet(map, key) == IF key \in DOMAIN map THEN Some(map[key]) ELSE None

\* a / b * 100 as the fraction num/den
PercentOf(a, b) == [num |-> a * 100, den |-> b]

\* the delta against the current total in place of the previous one
DeltaOverCurrent(total, prev_val) ==
    IF prev_val # None /\ prev_val[1] # 0 /\ prev_val[1] > 0 /\ total # 0
    THEN Some(PercentOf(total - prev_val[1], total))
    ELSE None

\* the body of the second loop: the delta of a row with this total
Delta(total, prev_val) ==
    IF prev_val # None /\ prev_val[1] # 0 /\ prev_val[1] > 0
    THEN Some(PercentOf(total - prev_val[1], prev_val[1]))
    ELSE None

\* _compute_deltas appending a delta for the matched rows only
_compute_deltas_matched_only(current, previous) ==
    LET prev_map == PrevMap(previous)
        Matched(r) == MapGet(prev_map, RowKey(r)) # None
        matched == SelectSeq(current, Matched)
    IN  [i \in 1..Len(matched) |->
            Delta(matched[i].tokens.total, MapGet(prev_map, RowKey(matched[i])))]

_compute_deltas(current, previous) ==
    LET prev_map == PrevMap(previous)
    IN  [i \in 1..Len(current) |->
            Delta(current[i].tokens.total, MapGet(prev_map, RowKey(current[i])))]

\* the call of _compute_deltas on the rows at hand
ComputeDeltas ==
    /\ deltas = None
    /\ deltas' = Some(_compute_deltas(cur, prev))
    /\ UNCHANGED <<messages, sessions, tieRule, last, cur, prev>>
    /\ UNCHANGED cliVars

-----------------------------------------------------------------------------
(* SpecDelta: _compute_deltas over row lists *)

\* a row as the tests of _compute_deltas build it
DeltaRow(label, detail, total) ==
    UsageRow(label, 0, TokenStats(0, 0, 0, 0, 0, total), 0, detail)

DeltaLabels == {"a", "a:b"}

DeltaDetails == {None, Some(""), Some("b")}

CurRows ==
    {DeltaRow(l, d, t) : l \in DeltaLabels, d \in DeltaDetails, t \in {50, 100, 200}}

PrevRows ==
    {DeltaRow(l, d, t) : l \in DeltaLabels, d \in DeltaDetails, t \in {0, 100}}

\* the sequences of at most n rows of R, in every order
RowLists(R, n) == UNION {[1..k -> R] : k \in 0..n}

InitDelta ==
    /\ messages = <<>>
    /\ sessions = [id \in {} |-> None]
    /\ tieRule = "asc"
    /\ last = NoCall
    /\ cur \in RowLists(CurRows, MaxCur)
    /\ prev \in Stores(PrevRows, MaxPrev)
    /\ deltas = None
    /\ NoInvocation

NextDelta == ComputeDeltas

SpecDelta == InitDelta /\ [][NextDelta]_vars

\* the previous rows that carry the matching key of current row i
SameKey(i) == {j \in 1..Len(prev) : RowKey(prev[j]) = RowKey(cur[i])}

PrevTotal(i) == SumIdx(SameKey(i), [j \in SameKey(i) |-> prev[j].tokens.total])

\* C9: the delta of a current row with total c whose matching key has the
\* previous total p is absent when no previous row has the key or p <= 0, and
\* otherwise is (c - p) / p * 100; an absent delta is not the delta 0.
C9_DeltaFormula ==
    deltas # None =>
        /\ Len(deltas[1]) = Len(cur)
        /\ \A i \in 1..Len(cur) :
              LET c == cur[i].tokens.total
                  p == PrevTotal(i)
                  d == deltas[1][i]
              IN  IF SameKey(i) = {} \/ p <= 0
                  THEN d = None
                  ELSE /\ d # None
                       /\ d[1].den > 0
                       /\ d[1].num * p = (c - p) * 100 * d[1].den
                       /\ (c = 200 /\ p = 100) => d[1].num = 100 * d[1].den
                       /\ (c = 50 /\ p = 100) => d[1].num = -50 * d[1].den

\* a current row of 50 tokens against a previous row of 100 with the same
\* label: the delta is -50
C9_Witness ==
    /\ deltas # None
    /\ cur = <<DeltaRow("a", None, 50)>>
    /\ prev = <<DeltaRow("a", None, 100)>>
    /\ deltas[1][1] # None
    /\ deltas[1][1][1].num = -50 * deltas[1][1][1].den

\* the previous rows that agree with current row i in label and in detail
SameLabelAndDetail(i) ==
    {j \in 1..Len(prev) :
        prev[j].label = cur[i].label /\ prev[j].detail = cur[i].detail}

\* C10: a row's key is its label when detail is None and label + ":" + detail
\* in every other case, and the lookup map sums tokens.total per key, so that a
\* current row is compared with exactly the previous rows that agree with it in
\* label and in detail: its delta is the one against the sum of their totals.
C10_MatchingKey ==
    deltas # None =>
        \A i \in 1..Len(cur) :
            LET J == SameLabelAndDetail(i)
                p == SumIdx(J, [j \in J |-> prev[j].tokens.total])
                c == cur[i].tokens.total
                d == deltas[1][i]
            IN  IF J = {} \/ p <= 0 THEN d = None
                ELSE d # None /\ d[1].num * p = (c - p) * 100 * d[1].den

-----------------------------------------------------------------------------
(* SpecDistinct: the grouped views the comparison is made on, over group    *)
(* keys that may be null, empty or shared                                   *)

DistinctMsgs ==
    Msgs({"assistant"}, {TokFull(5)}, {Some(T1)},
         {Keys(sid, m, a, Some("p1")) :
             sid \in {Some("s1"), Some("s2")},
             m \in {None, Some(""), Some("m1")},
             a \in {None, Some(""), Some("a")}}
         \cup {Keys(Some("s1"), Some("m1"), Some("a"), p) : p \in {None, Some("")}})

\* both sessions carry the title "T", or only s1 has a session row
DistinctTables ==
    {[id \in {"s1", "s2"} |-> Some("T")], [id \in {"s1"} |-> Some("T")]}

InitDistinct == InitOver(DistinctMsgs, DistinctTables)

NextDistinct ==
    \/ ByModel({None}, {None}, {None})
    \/ ByAgent({None}, {None}, {None})
    \/ ByProvider({None}, {None}, {None})
    \/ BySession({None}, {None}, {None})

SpecDistinct == InitDistinct /\ [][NextDistinct]_vars

ComparedOps == {"by_model", "by_provider", "by_agent", "by_session"}

\* the matching key the claim gives a row: label, or label + ":" + detail
MatchingKey(r) ==
    IF r.detail = None THEN r.label ELSE r.label \o ":" \o r.detail[1]

\* the groups of a view: the distinct values of what it groups by
ViewGroups(op, I) ==
    IF op = "by_session" THEN {<<messages[i].session_id>> : i \in I}
    ELSE GroupsOf(op, I)

\* the label of a group key: the key, or the placeholder when it is null or
\* empty
PlainLabel(k) == IF k = None \/ k[1] = "" THEN "(unknown)" ELSE k[1]

\* the label and detail a view gives the group g
GroupLabel(op, g) ==
    IF op = "by_session" THEN SessionLabel(g[1]) ELSE PlainLabel(g[1])

GroupDetail(op, g) == IF op = "by_agent" THEN g[2] ELSE None

\* C11 as claimed: the rows of one by_model, by_provider, by_agent or
\* by_session result have pairwise distinct matching keys (label, or
\* label + ":" + detail).
C11_DistinctKeys ==
    last.op \in ComparedOps =>
        \A p, q \in 1..Len(last.rows) :
            p # q => MatchingKey(last.rows[p]) # MatchingKey(last.rows[q])

\* C11 as amended: the rows of one by_model, by_provider, by_agent or
\* by_session result come from pairwise distinct groups (model, provider,
\* agent and model, session id), one row per group; rows share a label and
\* detail exactly when several groups do (sessions with one title, a null and
\* an empty key under one placeholder): for every label and detail as many rows
\* carry them as groups have them.
C11_OneRowPerGroup ==
    (last.op \in ComparedOps /\ last.limit = None) =>
        LET I  == CountedIn(last.since, last.until)
            G  == ViewGroups(last.op, I)
            LD == {<<GroupLabel(last.op, g), GroupDetail(last.op, g)>> : g \in G}
                    \cup {<<last.rows[p].label, last.rows[p].detail>> :
                             p \in 1..Len(last.rows)}
        IN  /\ Len(last.rows) = Cardinality(G)
            /\ \A ld \in LD :
                  Cardinality({p \in 1..Len(last.rows) :
                      <<last.rows[p].label, last.rows[p].detail>> = ld})
                  = Cardinality({g \in G :
                      <<GroupLabel(last.op, g), GroupDetail(last.op, g)>> = ld})

\* by_model on a table with a record whose model is null and one whose model
\* is the empty string: two rows, both with the matching key "(unknown)"
C11_Witness ==
    /\ last.op = "by_model"
    /\ Len(last.rows) = 2
    /\ MatchingKey(last.rows[1]) = "(unknown)"
    /\ MatchingKey(last.rows[2]) = "(unknown)"
    /\ {messages[i].modelID : i \in 1..Len(messages)} = {None, Some("")}

-----------------------------------------------------------------------------
(* db.py: the store on disk and the serialisation of rows *)

\* _default_db_path() on Linux without XDG_DATA_HOME: OPENCODE_DB when it is
\* set and not empty
_default_db_path(e) ==
    IF e.OPENCODE_DB # None /\ e.OPENCODE_DB[1] # "" THEN e.OPENCODE_DB[1]
    ELSE "~/.local/share/opencode/opencode.db"

\* self.path = Path(db_path) if db_path else _default_db_path()
ResolvePath(db_path, e) ==
    IF db_path # None /\ db_path[1] # "" THEN db_path[1] ELSE _default_db_path(e)

\* the message of the FileNotFoundError of OpenCodeDB.__init__, in its parts
NotFoundMessage(path) ==
    <<"OpenCode database not found at ", path,
      "\nSet OPENCODE_DB env var to override.">>

\* round(x, 4) of a cost in units of 10^-5: the nearest multiple of ten units,
\* a tie going to the even multiple
Round4(c) ==
    LET r    == c % 10
        down == c - r
    IN  IF r < 5 THEN down
        ELSE IF r > 5 THEN down + 10
        ELSE IF (down \div 10) % 2 = 0 THEN down ELSE down + 10

\* to_dicts with the key "model" written whenever detail is truthy
to_dicts_truthy_detail(rows) ==
    [i \in 1..Len(rows) |->
        LET r == rows[i]
            d == [label |-> r.label, calls |-> r.calls, tokens |-> r.tokens,
                  cost |-> Round4(r.cost)]
        IN  IF r.detail # None /\ r.detail[1] # ""
            THEN d @@ [model |-> r.detail[1]] ELSE d]

to_dicts(rows) ==
    [i \in 1..Len(rows) |->
        LET r == rows[i]
            d == [label  |-> r.label,
                  calls  |-> r.calls,
                  tokens |-> [input       |-> r.tokens.input,
                              output      |-> r.tokens.output,
                              reasoning   |-> r.tokens.reasoning,
                              cache_read  |-> r.tokens.cache_read,
                              cache_write |-> r.tokens.cache_write,
                              total       |-> r.tokens.total],
                  cost   |-> Round4(r.cost)]
        IN  IF r.detail # None THEN d @@ [model |-> r.detail[1]] ELSE d]

-----------------------------------------------------------------------------
(* render.py: the summary panel and the tables *)

\* render_summary with the test of the previous calls in front of all three
\* deltas
render_summary_calls_guard(total, period, prev_total) ==
    LET shown == prev_total # None /\ prev_total[1].calls > 0
        pct(c, p) == IF shown /\ p # 0 THEN Some(PercentOf(c - p, p)) ELSE None
    IN  [kind |-> "summary", total |-> total, period |-> period,
         prev_total |-> prev_total,
         calls_delta  |-> pct(total.calls,
                              IF shown THEN prev_total[1].calls ELSE 0),
         tokens_delta |-> pct(total.tokens.total,
                              IF shown THEN prev_total[1].tokens.total ELSE 0),
         cost_delta   |-> pct(total.cost,
                              IF shown THEN prev_total[1].cost ELSE 0)]

\* render_summary(total, period, prev_total): the panel with the three headline
\* numbers, each followed by its delta when `prev_total is not None and
\* prev_total.<metric> > 0`
render_summary(total, period, prev_total) ==
    [kind |-> "summary", total |-> total, period |-> period,
     prev_total |-> prev_total,
     calls_delta  |->
        IF prev_total # None /\ prev_total[1].calls > 0
        THEN Some(PercentOf(total.calls - prev_total[1].calls,
                            prev_total[1].calls))
        ELSE None,
     tokens_delta |->
        IF prev_total # None /\ prev_total[1].tokens.total > 0
        THEN Some(PercentOf(total.tokens.total - prev_total[1].tokens.total,
                            prev_total[1].tokens.total))
        ELSE None,
     cost_delta   |->
        IF prev_total # None /\ prev_total[1].cost > 0
        THEN Some(PercentOf(total.cost - prev_total[1].cost, prev_total[1].cost))
        ELSE None]

Max(a, b) == IF a >= b THEN a ELSE b

\* round() and the format .0f of n/d for n >= 0 and d > 0: the nearest
\* integer, a tie going to the even one
RoundHalfEven(n, d) ==
    LET q == n \div d
        r == n % d
    IN  IF 2 * r < d THEN q
        ELSE IF 2 * r > d THEN q + 1
        ELSE IF q % 2 = 0 THEN q ELSE q + 1

\* s * n: the string s repeated n times
RECURSIVE Repeat(_, _)
Repeat(s, n) == IF n <= 0 THEN "" ELSE s \o Repeat(s, n - 1)

_BAR_FULL == "█"

_BAR_EMPTY == "░"

_BAR_WIDTH_DEFAULT == 8

\* _spark_bar(value, max_value, width)
_spark_bar(value, max_value, width) ==
    LET w == IF width < 1 THEN 1 ELSE width
    IN  IF max_value <= 0 \/ value <= 0 THEN Repeat(_BAR_EMPTY, w)
        ELSE LET filled == Min(Max(1, RoundHalfEven(value * w, max_value)), w)
             IN  Repeat(_BAR_FULL, filled) \o Repeat(_BAR_EMPTY, w - filled)

\* _fmt_delta(pct) for the fraction pct: the markup [red]↑N%[/], [green]↓N%[/]
\* or [dim]→0%[/] in its parts, N being abs(pct) in the format .0f
_fmt_delta(pct) ==
    IF pct.num > 0
    THEN [style |-> "red", arrow |-> "↑",
          percent |-> Some(RoundHalfEven(pct.num, pct.den))]
    ELSE IF pct.num < 0
    THEN [style |-> "green", arrow |-> "↓",
          percent |-> Some(RoundHalfEven(-pct.num, pct.den))]
    ELSE [style |-> "dim", arrow |-> "→", percent |-> Some(0)]

\* the cell "[dim]-[/]" of a row without delta
NoDeltaCell == [style |-> "dim", arrow |-> "-", percent |-> None]

\* console.width of a terminal of 80 columns
ConsoleWidth == 80

\* the width of the trend bar _make_table computes from the terminal width
BarWidth(show_breakdown, show_detail, row_deltas) ==
    LET col_overhead == 3
        label_max    == IF show_detail # None THEN 24 ELSE 30
        detail_max   == IF show_detail # None THEN 18 ELSE 0
        fixed_width  ==
            (label_max + col_overhead)
            + (IF show_detail # None THEN detail_max + col_overhead ELSE 0)
            + (5 + col_overhead)
            + (IF show_breakdown THEN (6 + col_overhead) * 4 ELSE 0)
            + (7 + col_overhead) * 2
            + (IF row_deltas # None THEN 6 + col_overhead ELSE 0)
            + 4
    IN  Min(24, Max(_BAR_WIDTH_DEFAULT, ConsoleWidth - fixed_width - col_overhead))

\* _make_table(title, label_header, rows, show_breakdown, show_detail,
\* trend_values, deltas): the columns and one line per row, in order.  A line
\* has the label (blank when it repeats the label above), whether a section
\* separator precedes it, the row its detail, calls, token and cost cells are
\* formatted from, the trend bar and the delta cell
_make_table(title, label_header, rows, show_breakdown, show_detail, trend_values, row_deltas) ==
    LET bar_width == BarWidth(show_breakdown, show_detail, row_deltas)
        trend_max ==
            IF trend_values # None /\ trend_values[1] # <<>>
            THEN LET tv == trend_values[1]
                 IN  tv[CHOOSE i \in 1..Len(tv) : \A j \in 1..Len(tv) : tv[i] >= tv[j]]
            ELSE 0
    IN  [title |-> title,
         columns |->
            <<label_header>>
            \o (IF show_detail # None THEN <<show_detail[1]>> ELSE <<>>)
            \o <<"Calls">>
            \o (IF show_breakdown
                THEN <<"Input", "Output", "Cache R", "Cache W">> ELSE <<>>)
            \o <<"Total", "Cost">>
            \o (IF trend_values # None THEN <<"Trend">> ELSE <<>>)
            \o (IF row_deltas # None THEN <<"Δ">> ELSE <<>>),
         lines |->
            [i \in 1..Len(rows) |->
                LET r          == rows[i]
                    prev_label == IF i = 1 THEN None ELSE Some(rows[i - 1].label)
                IN  [label   |-> IF Some(r.label) # prev_label THEN r.label ELSE "",
                     section |-> /\ show_detail # None
                                 /\ prev_label # None
                                 /\ Some(r.label) # prev_label,
                     row     |-> r,
                     trend   |->
                        IF trend_values = None THEN None
                        ELSE Some(_spark_bar(
                                 IF i <= Len(trend_values[1])
                                 THEN trend_values[1][i] ELSE 0,
                                 trend_max, bar_width)),
                     delta   |->
                        IF row_deltas = None THEN None
                        ELSE LET d == IF i <= Len(row_deltas[1])
                                      THEN row_deltas[1][i] ELSE None
                             IN  Some(IF d # None THEN _fmt_delta(d[1])
                                      ELSE NoDeltaCell)]]]

\* render_daily(rows, period)
render_daily(rows, period) ==
    _make_table("Daily Usage (" \o period \o ")", "Date", rows, TRUE, None,
                Some([i \in 1..Len(rows) |-> rows[i].tokens.total]), None)
        @@ [kind |-> "table"]

\* render_grouped(rows, group_by, period, deltas) for the group_by of the
\* command line
render_grouped(rows, group_by, period, row_deltas) ==
    LET label_header == IF group_by = "model" THEN "Model"
                        ELSE IF group_by = "agent" THEN "Agent"
                        ELSE IF group_by = "provider" THEN "Provider"
                        ELSE "Session"
    IN  _make_table("Usage by " \o label_header \o " (" \o period \o ")",
                    label_header, rows, group_by \notin {"session", "agent"},
                    IF group_by = "agent" THEN Some("Model") ELSE None,
                    None, row_deltas)
            @@ [kind |-> "table"]

\* the call of render_summary on the totals row at hand and the previous
\* totals row, if there is one
RenderSummary ==
    /\ out = <<>>
    /\ Len(cur) = 1
    /\ out' = <<render_summary(cur[1], "Last 7 days",
                               IF prev = <<>> THEN None ELSE Some(prev[1]))>>
    /\ UNCHANGED dbVars
    /\ UNCHANGED <<clock, env, argv, pc, loc, stmt, conns, queries>>

\* the call of render_grouped on the rows at hand with the deltas computed
\* for them
RenderGrouped(GroupBys) ==
    /\ deltas # None
    /\ out = <<>>
    /\ \E group_by \in GroupBys :
          out' = <<render_grouped(cur, group_by, "Last 7 days", deltas)>>
    /\ UNCHANGED dbVars
    /\ UNCHANGED <<clock, env, argv, pc, loc, stmt, conns, queries>>

\* the call _spark_bar(value, max_value) on the arguments at hand, the width
\* at its default
SparkBar ==
    /\ out = <<>>
    /\ out' = <<[kind |-> "bar",
                 text |-> _spark_bar(loc.value, loc.max_value, _BAR_WIDTH_DEFAULT)]>>
    /\ UNCHANGED dbVars
    /\ UNCHANGED <<clock, env, argv, pc, loc, stmt, conns, queries>>

-----------------------------------------------------------------------------
(* cli.py: the command line and main *)

MsPerHour == 60 * 60 * 1000

Days(n) == TimeDelta(n * MsPerDay, 0)

\* a value of --since: a relative duration such as 1d, an ISO date, or a
\* string that is neither
Relative(n, unit) == [kind |-> "relative", n |-> n, unit |-> unit]

IsoDate(dt) == [kind |-> "iso", dt |-> dt]

Invalid == [kind |-> "invalid"]

\* _parse_since(value) for a value that is not invalid, now being the reading
\* of the clock it takes
_parse_since(value, now) ==
    IF value.kind = "relative"
    THEN LET delta == IF value.unit = "h" THEN TimeDelta(value.n * MsPerHour, 0)
                      ELSE IF value.unit = "d" THEN Days(value.n)
                      ELSE IF value.unit = "w" THEN Days(value.n * 7)
                      ELSE Days(value.n * 30)
         IN  Minus(now, delta)
    ELSE value.dt

\* the namespace parse_args returns
Namespace(command, days, since, by, limit, json_output, compare, db) ==
    [command |-> command, days |-> days, since |-> since, by |-> by,
     limit |-> limit, json_output |-> json_output, compare |-> compare,
     db |-> db]

\* dt.replace(hour=0, minute=0, second=0, microsecond=0) in local time
Midnight(dt, tz) ==
    LET local == dt.ms + tz * 1000
    IN  DateTime(local - (local % MsPerDay) - tz * 1000, 0)

\* _resolve_since(args): <<since, period>>, now being the reading of the clock
_resolve_since(args, now, tz) ==
    IF args.command = Some("today") THEN <<Midnight(now, tz), "Today">>
    ELSE IF args.command = Some("yesterday")
    THEN <<Midnight(Minus(now, Days(1)), tz), "Yesterday & Today">>
    ELSE IF args.since # None
    THEN <<args.since[1], "Since " \o SqlDate(args.since[1].ms, tz)>>
    ELSE IF args.days # None
    THEN <<Minus(now, Days(args.days[1])),
           "Last " \o ToString(args.days[1]) \o " days">>
    ELSE <<Minus(now, Days(7)), "Last 7 days">>

\* the view _fetch_rows calls for a group_by
ViewOf(group_by) ==
    IF group_by = "day" THEN "daily"
    ELSE IF group_by = "model" THEN "by_model"
    ELSE IF group_by = "agent" THEN "by_agent"
    ELSE IF group_by = "provider" THEN "by_provider"
    ELSE "by_session"

\* the locals of main before it has set any
NoLocals ==
    [args |-> None, since |-> None, period |-> "", group_by |-> "",
     now |-> None, prev_since |-> None, rows |-> <<>>, total |-> None,
     prev_total |-> None, prev_rows |-> <<>>]

\* the positions of main at which it queries the store, in program order
QueryPositions == <<"rows", "total", "prev_total", "prev_rows">>

\* main querying the previous period without its upper bound
QueryAtPrevUnbounded(at, l) ==
    IF at = "rows"
    THEN [at |-> at, op |-> ViewOf(l.group_by), since |-> l.since,
          until |-> None, limit |-> l.args[1].limit]
    ELSE IF at = "total"
    THEN [at |-> at, op |-> "totals", since |-> l.since, until |-> None,
          limit |-> None]
    ELSE IF at = "prev_total"
    THEN [at |-> at, op |-> "totals", since |-> l.prev_since,
          until |-> None, limit |-> None]
    ELSE [at |-> at, op |-> ViewOf(l.group_by), since |-> l.prev_since,
          until |-> None, limit |-> l.args[1].limit]

\* the call main makes at a query position
QueryAt(at, l) ==
    IF at = "rows"
    THEN [at |-> at, op |-> ViewOf(l.group_by), since |-> l.since,
          until |-> None, limit |-> l.args[1].limit]
    ELSE IF at = "total"
    THEN [at |-> at, op |-> "totals", since |-> l.since, until |-> None,
          limit |-> None]
    ELSE IF at = "prev_total"
    THEN [at |-> at, op |-> "totals", since |-> l.prev_since,
          until |-> l.since, limit |-> None]
    ELSE [at |-> at, op |-> ViewOf(l.group_by), since |-> l.prev_since,
          until |-> l.since, limit |-> l.args[1].limit]

\* what the statement of a call fetches
Fetch(c, tz) ==
    IF c.op = "daily" THEN daily(c.since, c.until, c.limit, tz)
    ELSE IF c.op = "by_model" THEN by_model(c.since, c.until, c.limit)
    ELSE IF c.op = "by_agent" THEN by_agent(c.since, c.until, c.limit)
    ELSE IF c.op = "by_provider" THEN by_provider(c.since, c.until, c.limit)
    ELSE IF c.op = "by_session" THEN by_session(c.since, c.until, c.limit)
    ELSE <<totals(c.since, c.until)>>

\* main fetching the previous rows for every group_by, the days too
AfterQueryDayToo(at, l) ==
    IF at = "rows" THEN "total"
    ELSE IF at = "total"
    THEN (IF l.prev_since # None THEN "prev_total" ELSE "output")
    ELSE IF at = "prev_total" THEN "prev_rows"
    ELSE "output"

\* where main goes on after the query at a position has returned
AfterQuery(at, l) ==
    IF at = "rows" THEN "total"
    ELSE IF at = "total"
    THEN (IF l.prev_since # None THEN "prev_total" ELSE "output")
    ELSE IF at = "prev_total"
    THEN (IF l.group_by # "day" THEN "prev_rows" ELSE "output")
    ELSE "output"

\* main taking the totals from the rows it has fetched
AssignTotalOfRows(at, l, rows) ==
    IF at = "rows" THEN [l EXCEPT !.rows = rows]
    ELSE IF at = "total"
    THEN [l EXCEPT !.total = Some(
             UsageRow("total", RowCalls(l.rows),
                      TokenStats(RowTokens(l.rows, "input"),
                                 RowTokens(l.rows, "output"),
                                 RowTokens(l.rows, "reasoning"),
                                 RowTokens(l.rows, "cache_read"),
                                 RowTokens(l.rows, "cache_write"),
                                 RowTokens(l.rows, "total")),
                      RowCost(l.rows), None))]
    ELSE IF at = "prev_total" THEN [l EXCEPT !.prev_total = Some(rows[1])]
    ELSE [l EXCEPT !.prev_rows = rows]

\* the locals of main after the query at a position has returned rows
Assign(at, l, rows) ==
    IF at = "rows" THEN [l EXCEPT !.rows = rows]
    ELSE IF at = "total" THEN [l EXCEPT !.total = Some(rows[1])]
    ELSE IF at = "prev_total" THEN [l EXCEPT !.prev_total = Some(rows[1])]
    ELSE [l EXCEPT !.prev_rows = rows]

\* main after OpenCodeDB(db_path=args.db) without sys.exit(1) in the handler
AfterOpenNoExit(found) == "resolve_since"

\* where main goes on after OpenCodeDB(db_path=args.db): sys.exit(1) when the
\* FileNotFoundError was caught
AfterOpen(found) == IF found THEN "resolve_since" ELSE "exit_1"

\* a handler that takes a failed query for one without rows and goes on
OnErrorGoOn(at, l) == AfterQuery(at, l)

\* where main goes on when the query at a position raises: nothing catches it
OnError(at, l) == "raised"

\* sqlite3.connect(f"file:{self.path}?mode=ro", uri=True) with the row factory
_connect == [mode |-> "ro", row_factory |-> "sqlite3.Row"]

\* the connection closed only when the statement has succeeded
CloseOnSuccessOnly(n, failed) == IF failed THEN n ELSE n - 1

\* finally: conn.close() - the connections open after it
Finally(n, failed) == n - 1

\* by_session writing a session row for every session id that has none
StoreAfterBackfill(c) ==
    [messages |-> messages,
     sessions |->
        IF c.op # "by_session" THEN sessions
        ELSE LET ids == {messages[i].session_id[1] :
                            i \in {j \in AllRows : messages[j].session_id # None}}
             IN  [id \in ids \cup DOMAIN sessions |->
                     IF id \in DOMAIN sessions THEN sessions[id] ELSE None]]

\* the tables after the statement of a call has run on a connection opened
\* with mode=ro: every statement is a SELECT
StoreAfter(c) == [messages |-> messages, sessions |-> sessions]

\* json.dumps(output): the dict main builds
JsonOutput(l) ==
    LET output == [period |-> l.period,
                   total  |-> to_dicts(<<l.total[1]>>)[1],
                   rows   |-> to_dicts(l.rows)]
        with_total ==
            IF l.prev_total # None
            THEN output @@ [previous_total |-> to_dicts(<<l.prev_total[1]>>)[1]]
            ELSE output
    IN  IF l.prev_rows # <<>>
        THEN with_total @@ [previous_rows |-> to_dicts(l.prev_rows)]
        ELSE with_total

\* render_summary, a blank line, and render_daily or render_grouped
RichOutput(l) ==
    LET computed == IF l.prev_rows # <<>>
                    THEN Some(_compute_deltas(l.rows, l.prev_rows)) ELSE None
    IN  << render_summary(l.total[1], l.period, l.prev_total),
           [kind |-> "blank"],
           IF l.group_by = "day" THEN render_daily(l.rows, l.period)
           ELSE render_grouped(l.rows, l.group_by, l.period, computed) >>

\* parser.parse_args(argv): an invalid --since ends the invocation with
\* status 2, a relative one reads the clock
ParseArgs ==
    /\ pc = "parse_args"
    /\ IF argv.since # None /\ argv.since[1].kind = "invalid"
       THEN /\ out' = Append(out, [kind |-> "usage"])
            /\ pc' = "exit_2"
            /\ loc' = loc
       ELSE /\ out' = out
            /\ pc' = "open_db"
            /\ loc' = [loc EXCEPT !.args = Some(
                   [argv EXCEPT !.since =
                       IF argv.since = None THEN None
                       ELSE Some(_parse_since(argv.since[1], clock))])]
    /\ UNCHANGED dbVars
    /\ UNCHANGED <<clock, env, argv, stmt, conns, queries>>

\* db = OpenCodeDB(db_path=args.db), and the handler of FileNotFoundError
OpenDB ==
    /\ pc = "open_db"
    /\ LET path  == ResolvePath(loc.args[1].db, env)
           found == path \in env.files
       IN  /\ pc' = AfterOpen(found)
           /\ out' = IF found THEN out
                     ELSE Append(out, [kind |-> "error",
                                       text |-> <<"Error: ">> \o NotFoundMessage(path)])
    /\ UNCHANGED dbVars
    /\ UNCHANGED <<clock, env, argv, loc, stmt, conns, queries>>

\* since, period = _resolve_since(args); group_by = args.by or "day"
ResolveSince ==
    /\ pc = "resolve_since"
    /\ LET r == _resolve_since(loc.args[1], clock, env.tz)
       IN  loc' = [loc EXCEPT !.since = Some(r[1]),
                              !.period = r[2],
                              !.group_by = OrElse(loc.args[1].by, "day")]
    /\ pc' = "previous_period"
    /\ UNCHANGED dbVars
    /\ UNCHANGED <<clock, env, argv, stmt, conns, queries, out>>

\* now = datetime.now().astimezone() and the previous period of --compare
PreviousPeriod ==
    /\ pc = "previous_period"
    /\ LET now           == clock
           period_length == Minus(now, loc.since[1])
       IN  loc' = [loc EXCEPT
                      !.now = Some(now),
                      !.prev_since =
                          IF loc.args[1].compare /\ loc.since # None
                          THEN Some(Minus(loc.since[1], period_length))
                          ELSE None]
    /\ pc' = "rows"
    /\ UNCHANGED dbVars
    /\ UNCHANGED <<clock, env, argv, stmt, conns, queries, out>>

\* conn = self._connect() of the call at hand; sqlite3.connect may raise
Connect(Faults) ==
    /\ pc \in {QueryPositions[i] : i \in 1..Len(QueryPositions)}
    /\ stmt = None
    /\ \E fault \in Faults \cup {"none"} :
          IF fault = "connect"
          THEN /\ pc' = OnError(pc, loc)
               /\ queries' = Append(queries, QueryAt(pc, loc)
                                                  @@ [outcome |-> "connect raised"])
               /\ UNCHANGED <<stmt, conns>>
          ELSE /\ fault = "none"
               /\ conns' = conns + 1
               /\ stmt' = Some([call |-> QueryAt(pc, loc), conn |-> _connect,
                                state |-> "open", rows |-> <<>>])
               /\ UNCHANGED <<pc, queries>>
    /\ UNCHANGED dbVars
    /\ UNCHANGED <<clock, env, argv, loc, out>>

\* rows = conn.execute(sql, params).fetchall(), which may raise
Execute(Faults) ==
    /\ stmt # None
    /\ stmt[1].state = "open"
    /\ \E fault \in Faults \cup {"none"} :
          IF fault = "execute"
          THEN stmt' = Some([stmt[1] EXCEPT !.state = "failed"])
          ELSE /\ fault = "none"
               /\ stmt' = Some([stmt[1] EXCEPT
                                   !.state = "fetched",
                                   !.rows = Fetch(stmt[1].call, env.tz)])
    /\ messages' = StoreAfter(stmt[1].call).messages
    /\ sessions' = StoreAfter(stmt[1].call).sessions
    /\ UNCHANGED <<tieRule, last, cur, prev, deltas>>
    /\ UNCHANGED <<clock, env, argv, pc, loc, conns, queries, out>>

\* finally: conn.close(); then the call returns its rows to main, or its
\* exception goes on to main
Close ==
    /\ stmt # None
    /\ stmt[1].state \in {"fetched", "failed"}
    /\ LET failed == stmt[1].state = "failed"
       IN  /\ conns' = Finally(conns, failed)
           /\ queries' = Append(queries, stmt[1].call
                                    @@ [outcome |-> IF failed THEN "execute raised"
                                                    ELSE "returned"])
           /\ IF failed
              THEN /\ pc' = OnError(pc, loc)
                   /\ loc' = loc
              ELSE /\ pc' = AfterQuery(pc, loc)
                   /\ loc' = Assign(pc, loc, stmt[1].rows)
    /\ stmt' = None
    /\ UNCHANGED dbVars
    /\ UNCHANGED <<clock, env, argv, out>>

\* the JSON output, or the summary and the table
Output ==
    /\ pc = "output"
    /\ out' = IF loc.args[1].json_output
              THEN Append(out, [kind |-> "json", value |-> JsonOutput(loc)])
              ELSE out \o RichOutput(loc)
    /\ pc' = "done"
    /\ UNCHANGED dbVars
    /\ UNCHANGED <<clock, env, argv, loc, stmt, conns, queries>>

\* time passes while main has a reading of the clock still to take
Tick(Advances, latest) ==
    /\ pc \in {"parse_args", "open_db", "resolve_since", "previous_period"}
    /\ \E d \in Advances :
          /\ clock' = Minus(clock, Minus(DateTime(0, 0), d))
          /\ clock'.ms <= latest.ms
    /\ UNCHANGED dbVars
    /\ UNCHANGED <<env, argv, pc, loc, stmt, conns, queries, out>>

\* the states an invocation of main starts from
InitInvocation(D, Tables, Argvs, Envs, Clocks) ==
    /\ messages \in Stores(D, MaxMsgs)
    /\ sessions \in Tables
    /\ tieRule \in {"asc", "desc"}
    /\ last = NoCall
    /\ cur = <<>>
    /\ prev = <<>>
    /\ deltas = None
    /\ clock \in Clocks
    /\ env \in Envs
    /\ argv \in Argvs
    /\ pc = "parse_args"
    /\ loc = NoLocals
    /\ stmt = None
    /\ conns = 0
    /\ queries = <<>>
    /\ out = <<>>

-----------------------------------------------------------------------------
(* SpecWindow: main --compare while the clock advances *)

\* the clock when main starts: 12:00:00.000250 of day 2
Now0 == DateTime(2 * MsPerDay + 12 * MsPerHour, 250)

\* the clock advances by half a millisecond or by a millisecond at a time
Advances == {TimeDelta(0, 500), TimeDelta(1, 0)}

\* the latest reading an invocation takes
Latest == DateTime(Now0.ms + 1, 999)

\* records of the day before yesterday, of yesterday, of this morning and of
\* an hour from now
ClockMsgs ==
    Msgs({"assistant"}, {TokFull(5)},
         {Some(T1), Some(2 * MsPerDay), Some(Now0.ms + MsPerHour)},
         {Keys(Some("s1"), Some("m1"), Some("a"), Some("p1"))})

\* the time options of the command line, alone and in the combinations in
\* which one takes precedence over another
TimeOptions ==
    {<<c, None, None>> : c \in {None, Some("today"), Some("yesterday")}}
    \cup {<<None, Some(1), None>>, <<Some("today"), Some(1), None>>}
    \cup {<<None, d, Some(v)>> :
             d \in {None, Some(1)},
             v \in {Relative(1, "d"), Relative(12, "h"), IsoDate(DateTime(T1, 0))}}
    \cup {<<None, None, Some(Invalid)>>}

WindowArgvs ==
    {Namespace(t[1], t[2], t[3], by, None, FALSE, compare, Some("/data/opencode.db")) :
        t \in TimeOptions, by \in {None, Some("model")}, compare \in BOOLEAN}

WindowEnvs ==
    {[tz |-> tz, files |-> {"/data/opencode.db"}, OPENCODE_DB |-> None] :
        tz \in TzOffsets}

InitWindow ==
    InitInvocation(ClockMsgs, {[id \in {"s1"} |-> Some("T")]}, WindowArgvs, WindowEnvs,
             {Now0})

NextWindow ==
    \/ ParseArgs
    \/ OpenDB
    \/ ResolveSince
    \/ PreviousPeriod
    \/ Connect({})
    \/ Execute({})
    \/ Close
    \/ Output
    \/ Tick(Advances, Latest)

SpecWindow == InitWindow /\ [][NextWindow]_vars

\* the query main made at a position, None when it made none there
QueryMade(at) ==
    LET P == {i \in 1..Len(queries) : queries[i].at = at}
    IN  IF P = {} THEN None ELSE Some(queries[CHOOSE i \in P : TRUE])

\* C12: with compare set the current and the previous queries run over two
\* windows of equal length, the previous one abutting the current one:
\* previous.until = current.since and
\* previous.since = current.since - (current.until - current.since).
C12_EqualAbuttingWindows ==
    (pc = "done" /\ loc.args[1].compare) =>
        LET current  == QueryMade("rows")[1]
            previous == QueryMade("prev_total")[1]
        IN  /\ current.since # None /\ current.until # None
            /\ previous.until = current.since
            /\ previous.since =
                  Some(Minus(current.since[1],
                             Minus(current.until[1], current.since[1])))

\* the nominal length of the period of a command line in days, None when the
\* period has no length fixed by the command line
NominalDays(a) ==
    IF a.command # None THEN None
    ELSE IF a.since # None
    THEN (IF a.since[1].kind = "relative" /\ a.since[1].unit = "d"
          THEN Some(a.since[1].n) ELSE None)
    ELSE IF a.days # None THEN a.days ELSE Some(7)

\* C13: the reference timestamp is captured once per invocation: since is the
\* one resolved from the reading now from which the length of the previous
\* period is computed, so that under any advance of the clock the previous
\* window is exactly as long as the nominal period (N days for --days N).
C13_SingleNow ==
    (pc = "done" /\ loc.args[1].compare) =>
        LET now  == loc.now[1]
            args == [argv EXCEPT !.since =
                        IF argv.since = None THEN None
                        ELSE Some(_parse_since(argv.since[1], now))]
        IN  /\ loc.since[1] = _resolve_since(args, now, env.tz)[1]
            /\ NominalDays(argv) # None =>
                  Minus(loc.since[1], loc.prev_since[1])
                      = Days(NominalDays(argv)[1])

-----------------------------------------------------------------------------
(* SpecMain: main over every grouping and output, the store present or      *)
(* missing, its queries succeeding or raising                               *)

\* records of yesterday and of this morning in a session with a session row
\* and in one without
MainMsgs ==
    Msgs({"assistant"}, {TokFull(5)}, {Some(T1), Some(2 * MsPerDay)},
         {Keys(Some("s1"), Some("m1"), Some("a"), Some("p1")),
          Keys(Some("s2"), Some("m2"), None, Some("p1"))})

MainArgvs ==
    {Namespace(None, Some(1), None, by, None, json_output, compare, db) :
        by \in {None, Some("model"), Some("agent"), Some("provider"),
                Some("session")},
        json_output \in BOOLEAN, compare \in BOOLEAN,
        db \in {None, Some("/data/opencode.db"), Some("/data/missing.db")}}

MainEnvs ==
    {[tz |-> 0, files |-> {"/data/opencode.db"}, OPENCODE_DB |-> o] :
        o \in {None, Some("/data/opencode.db"), Some("/data/gone.db")}}

\* sqlite3.connect and conn.execute may each raise
Faults == {"connect", "execute"}

InitMain == InitInvocation(MainMsgs, {[id \in {"s1"} |-> Some("T")]}, MainArgvs,
                      MainEnvs, {Now0})

NextMain ==
    \/ ParseArgs
    \/ OpenDB
    \/ ResolveSince
    \/ PreviousPeriod
    \/ Connect(Faults)
    \/ Execute(Faults)
    \/ Close
    \/ Output

SpecMain == InitMain /\ [][NextMain]_vars

\* the place of a query position in program order
PositionIndex(at) ==
    CHOOSE i \in 1..Len(QueryPositions) : QueryPositions[i] = at

\* main has ended: it returned, exited with a status, or an exception left it
Ended == pc \in {"done", "exit_1", "exit_2", "raised"}

\* the kinds of output that show results
Rendered == {i \in 1..Len(out) : out[i].kind \in {"summary", "table", "json"}}

\* C14: every query call opens its own read-only connection and closes it
\* before the call returns, also when the execution raises: a connection is
\* open exactly while a call is in flight, never more than one, and none once
\* main has
\* ended; the queries of one invocation run one after the other in program
\* order, those of the current period before those of the previous period.
C14_ConnectionPerQuery ==
    /\ conns = (IF stmt # None THEN 1 ELSE 0)
    /\ conns <= 1
    /\ Ended => conns = 0
    /\ \A i, j \in 1..Len(queries) :
          i < j => /\ PositionIndex(queries[i].at) < PositionIndex(queries[j].at)
                   /\ queries[i].outcome = "returned"
    /\ stmt # None =>
          /\ stmt[1].conn.mode = "ro"
          /\ stmt[1].call.at = pc
          /\ \A i \in 1..Len(queries) :
                /\ PositionIndex(queries[i].at) < PositionIndex(pc)
                /\ queries[i].outcome = "returned"

\* the execution of the previous-period totals raised after both queries of
\* the current period had returned: its connection is closed
C14_Witness ==
    /\ pc = "raised"
    /\ Len(queries) = 3
    /\ queries[3].at = "prev_total"
    /\ queries[3].outcome = "execute raised"
    /\ conns = 0

\* C15: no step of main or of a query changes the message or the session
\* records of the store.
C15_StoreUnchanged == [][messages' = messages /\ sessions' = sessions]_vars

\* main --by session --compare has made its four queries and has ended, on a
\* store with a record of a session that has no session row
C15_Witness ==
    /\ pc = "done"
    /\ Len(queries) = 4
    /\ queries[1].op = "by_session"
    /\ \E i \in AllRows : messages[i].session_id = Some("s2")
    /\ "s2" \notin DOMAIN sessions

\* C16: when the resolved store path does not exist, main prints the
\* not-found error, whose message names the attempted path and the OPENCODE_DB
\* override, and ends with exit status 1 without having made any query and
\* without any summary, table or JSON.
C16_NotFoundExit ==
    LET path == ResolvePath(argv.db, env)
    IN  (pc \notin {"parse_args", "open_db"} /\ path \notin env.files) =>
            /\ pc = "exit_1"
            /\ queries = <<>> /\ stmt = None /\ conns = 0
            /\ Len(out) = 1
            /\ out[1].kind = "error"
            /\ \E k \in 1..Len(out[1].text) : out[1].text[k] = path
            /\ \E k \in 1..Len(out[1].text) :
                  out[1].text[k] = "\nSet OPENCODE_DB env var to override."
            /\ Rendered = {}

\* main without --db under an OPENCODE_DB that names a missing file: exit
\* status 1 and the error names that file
C16_Witness ==
    /\ pc = "exit_1"
    /\ argv.db = None
    /\ env.OPENCODE_DB = Some("/data/gone.db")
    /\ out[1].text[3] = "/data/gone.db"

\* the query positions of an invocation: the current rows and totals and,
\* with compare, the previous totals and (unless grouped by day) rows
Required ==
    {"rows", "total"}
    \cup (IF argv.compare THEN {"prev_total"} ELSE {})
    \cup (IF argv.compare /\ argv.by # None THEN {"prev_rows"} ELSE {})

\* C17: a failure of any query leaves main as an exception, nothing recovers
\* from it and nothing is rendered after it; whenever summary, table or JSON
\* output exists, or is about to be written, every store query of the
\* invocation has returned successfully before.
C17_NoPartialOutput ==
    /\ (Rendered # {} \/ pc \in {"output", "done"}) =>
          /\ {queries[i].at : i \in 1..Len(queries)} = Required
          /\ \A i \in 1..Len(queries) : queries[i].outcome = "returned"
    /\ (\E i \in 1..Len(queries) : queries[i].outcome # "returned") =>
          /\ pc = "raised"
          /\ Rendered = {}
    /\ pc = "raised" => out = <<>>

\* the previous-period rows query raised after three queries had returned:
\* main has ended with the exception and has written nothing
C17_Witness ==
    /\ pc = "raised"
    /\ Len(queries) = 4
    /\ queries[4].at = "prev_rows"
    /\ queries[4].outcome # "returned"
    /\ out = <<>>

-----------------------------------------------------------------------------
(* SpecOrder: the order of the rows of the grouped views *)

OrderMsgs ==
    Msgs({"assistant"}, {TokFull(5), TokFull(7)}, {Some(T0), Some(T2), None},
         {Keys(Some("s1"), Some("m1"), None, Some("p1")),
          Keys(Some("s2"), Some("m2"), Some(""), Some("p2")),
          Keys(Some("s1"), Some("m2"), Some("a"), Some("p1")),
          Keys(Some("s2"), Some("m1"), Some("a"), Some("p2")),
          Keys(Some("s1"), Some("m1"), Some("b"), Some("p1"))})

InitOrder == InitOver(OrderMsgs, {[id \in {"s1"} |-> Some("T")]})

NextOrder ==
    \/ Daily({None}, {None}, {None})
    \/ ByModel({None}, {None}, {None})
    \/ ByAgent({None}, {None}, {None})
    \/ ByProvider({None}, {None}, {None})
    \/ BySession({None}, {None}, {None})

SpecOrder == InitOrder /\ [][NextOrder]_vars

\* C18: daily returns its rows in descending order of the label, the most
\* recent day first; by_model, by_provider and by_session return their rows in
\* non-increasing order of tokens.total.
C18_SortOrder ==
    /\ last.op = "daily" =>
          \A p, q \in 1..Len(last.rows) :
              p < q => StrRank(last.rows[p].label) > StrRank(last.rows[q].label)
    /\ last.op \in {"by_model", "by_provider", "by_session"} =>
          \A p, q \in 1..Len(last.rows) :
              p < q => last.rows[p].tokens.total >= last.rows[q].tokens.total

\* daily on a table whose later day has the smaller total: the later day is
\* the first row
C18_Witness ==
    /\ last.op = "daily"
    /\ Len(last.rows) = 2
    /\ last.rows[1].label = "1970-01-02" /\ last.rows[1].tokens.total = 5
    /\ last.rows[2].label = "1970-01-01" /\ last.rows[2].tokens.total = 7

\* C19 as claimed: in the rows of by_agent the labels are in non-decreasing
\* order, the rows of one label are contiguous, and among rows that share a
\* label tokens.total is non-increasing.
C19_LabelOrder ==
    last.op = "by_agent" =>
        \A p, q \in 1..Len(last.rows) :
            p < q =>
                /\ StrRank(last.rows[p].label) <= StrRank(last.rows[q].label)
                /\ last.rows[p].label = last.rows[q].label =>
                      /\ last.rows[p].tokens.total >= last.rows[q].tokens.total
                      /\ \A k \in p..q : last.rows[k].label = last.rows[p].label

\* C19 as amended: by_agent returns one row per pair of agent and model,
\* ordered by the stored agent: first the rows of the records without agent,
\* then those of the empty agent (both labelled "(unknown)"), then those of the
\* other agents in ascending order of the agent, which is their label; within
\* each of these agents tokens.total is non-increasing.
C19_AgentOrder ==
    (last.op = "by_agent" /\ last.limit = None) =>
        LET I      == CountedIn(last.since, last.until)
            G      == GroupsOf("by_agent", I)
            Of(a)  == {g \in G : g[1] = a}
            n0     == Cardinality(Of(None))
            n1     == Cardinality(Of(Some("")))
            n      == Len(last.rows)
            Sorted(P) ==
                \A p, q \in P :
                    p < q => last.rows[p].tokens.total >= last.rows[q].tokens.total
        IN  /\ n = Cardinality(G)
            /\ \A p \in 1..(n0 + n1) : last.rows[p].label = "(unknown)"
            /\ {last.rows[p].detail : p \in 1..n0} = {g[2] : g \in Of(None)}
            /\ {last.rows[p].detail : p \in (n0 + 1)..(n0 + n1)}
                  = {g[2] : g \in Of(Some(""))}
            /\ Sorted(1..n0)
            /\ Sorted((n0 + 1)..(n0 + n1))
            /\ \A p \in (n0 + n1 + 1)..n :
                  /\ Of(Some(last.rows[p].label)) # {}
                  /\ last.rows[p].label # ""
                  /\ Sorted({q \in (n0 + n1 + 1)..n :
                                last.rows[q].label = last.rows[p].label})
                  /\ \A q \in (p + 1)..n :
                        StrRank(last.rows[p].label) <= StrRank(last.rows[q].label)

\* by_agent on a table with 5 tokens without agent and 7 tokens of the empty
\* agent: two rows labelled "(unknown)", the smaller total first
C19_Witness ==
    /\ last.op = "by_agent"
    /\ Len(last.rows) = 2
    /\ last.rows[1].label = "(unknown)" /\ last.rows[1].tokens.total = 5
    /\ last.rows[2].label = "(unknown)" /\ last.rows[2].tokens.total = 7

-----------------------------------------------------------------------------
(* SpecDicts: to_dicts over row lists *)

\* rows with and without detail, the detail possibly empty, of a cost that
\* rounds down, up or not at all
DictRows ==
    {UsageRow(l, 2, TokenStats(3, 1, 1, 2, 1, 8), c, d) :
        l \in {"a", "(unknown)"}, c \in {4, 10, 17},
        d \in {None, Some(""), Some("m1")}}

\* the call of to_dicts on the rows at hand
ToDicts ==
    /\ last' = Call("to_dicts", None, None, None, 0, to_dicts(cur))
    /\ UNCHANGED <<messages, sessions, tieRule, cur, prev, deltas>>
    /\ UNCHANGED cliVars

InitDicts ==
    /\ messages = <<>>
    /\ sessions = [id \in {} |-> None]
    /\ tieRule = "asc"
    /\ last = NoCall
    /\ cur \in RowLists(DictRows, MaxRows)
    /\ prev = <<>>
    /\ deltas = None
    /\ NoInvocation

NextDicts == ToDicts

SpecDicts == InitDicts /\ [][NextDicts]_vars

\* C20: to_dicts maps a row sequence to a sequence of the same length and
\* order; each dict has label, calls, the six token fields under tokens, and
\* cost (rounded to four decimal places), and has the key "model" if and only
\* if detail was set on the row, then with the value of detail; the empty
\* sequence maps to the empty sequence.
C20_ToDicts ==
    last.op = "to_dicts" =>
        /\ Len(last.rows) = Len(cur)
        /\ cur = <<>> => last.rows = <<>>
        /\ \A i \in 1..Len(cur) :
              LET d == last.rows[i]
                  r == cur[i]
              IN  /\ {"label", "calls", "tokens", "cost"} \subseteq DOMAIN d
                  /\ DOMAIN d \subseteq {"label", "calls", "tokens", "cost", "model"}
                  /\ d.label = r.label
                  /\ d.calls = r.calls
                  /\ DOMAIN d.tokens = TokenFields
                  /\ \A f \in TokenFields : d.tokens[f] = r.tokens[f]
                  /\ d.cost % 10 = 0
                  /\ d.cost - r.cost \in -5..5
                  /\ "model" \in DOMAIN d <=> r.detail # None
                  /\ r.detail # None => d.model = r.detail[1]

\* to_dicts on a row without detail followed by a row whose detail is the
\* empty string: the second dict alone has the key "model"
C20_Witness ==
    /\ last.op = "to_dicts"
    /\ Len(cur) = 2
    /\ cur[1].detail = None /\ cur[2].detail = Some("")
    /\ "model" \notin DOMAIN last.rows[1]
    /\ "model" \in DOMAIN last.rows[2]
    /\ last.rows[1].label # last.rows[2].label

-----------------------------------------------------------------------------
(* SpecSummary: render_summary over totals rows *)

\* a totals row with these headline numbers
SummaryRow(calls, total, cost) ==
    UsageRow("total", calls, TokenStats(0, 0, 0, 0, 0, total), cost, None)

CurTotals ==
    {SummaryRow(n, t, c) : n \in {0, 3}, t \in {0, 50, 200}, c \in {0, 6}}

\* previous totals whose headline numbers are positive, zero or, for the sums
\* of stored values, negative
PrevTotals ==
    {SummaryRow(n, t, c) : n \in {0, 2}, t \in {-100, 0, 100}, c \in {-4, 0, 4}}

InitSummary ==
    /\ messages = <<>>
    /\ sessions = [id \in {} |-> None]
    /\ tieRule = "asc"
    /\ last = NoCall
    /\ cur \in [1..1 -> CurTotals]
    /\ prev \in RowLists(PrevTotals, 1)
    /\ deltas = None
    /\ NoInvocation

NextSummary == RenderSummary

SpecSummary == InitSummary /\ [][NextSummary]_vars

\* the delta d of a headline number c is shown iff a previous totals row
\* exists and its number p is > 0, and then is (c - p) / p * 100
HeadlineDelta(d, c, has_prev, p) ==
    IF has_prev /\ p > 0
    THEN /\ d # None
         /\ d[1].den > 0
         /\ d[1].num * p = (c - p) * 100 * d[1].den
    ELSE d = None

\* C21: each of the three headline numbers of the summary (calls, total
\* tokens, cost) gets its own delta: it is shown iff a previous totals row
\* exists and its value of that metric is > 0, then it is
\* (current - previous) / previous * 100; a zero or absent previous value of one
\* metric suppresses the delta of that metric only.
C21_HeadlineDeltas ==
    \A k \in 1..Len(out) :
        out[k].kind = "summary" =>
            LET s  == out[k]
                t  == cur[1]
                hp == prev # <<>>
                z  == IF hp THEN prev[1] ELSE DefaultRow("total")
            IN  /\ s.total = t
                /\ HeadlineDelta(s.calls_delta, t.calls, hp, z.calls)
                /\ HeadlineDelta(s.tokens_delta, t.tokens.total, hp,
                                 z.tokens.total)
                /\ HeadlineDelta(s.cost_delta, t.cost, hp, z.cost)
                /\ (hp /\ t.tokens.total = 200 /\ z.tokens.total = 100) =>
                      s.tokens_delta[1].num = 100 * s.tokens_delta[1].den

\* a summary against previous totals of 2 calls, 0 tokens and a cost of 4: the
\* deltas of calls and cost are shown, that of tokens is not
C21_Witness ==
    /\ out # <<>>
    /\ prev = <<SummaryRow(2, 0, 4)>>
    /\ cur = <<SummaryRow(3, 50, 6)>>
    /\ out[1].calls_delta # None /\ out[1].calls_delta[1].num = 100
    /\ out[1].tokens_delta = None
    /\ out[1].cost_delta # None /\ out[1].cost_delta[1].num = 200

-----------------------------------------------------------------------------
(* SpecAlign: _compute_deltas and the table that shows its result *)

AlignCurRows ==
    {DeltaRow(l, d, t) : l \in {"a", "b"}, d \in {None, Some("m1")}, t \in {50, 200}}

AlignPrevRows ==
    {DeltaRow(l, d, t) : l \in {"a", "b"}, d \in {None, Some("m1")}, t \in {0, 100}}

InitAlign ==
    /\ messages = <<>>
    /\ sessions = [id \in {} |-> None]
    /\ tieRule = "asc"
    /\ last = NoCall
    /\ cur \in RowLists(AlignCurRows, MaxRows)
    /\ prev \in Stores(AlignPrevRows, MaxPrev)
    /\ deltas = None
    /\ NoInvocation

NextAlign ==
    \/ ComputeDeltas
    \/ RenderGrouped({"model", "agent"})

SpecAlign == InitAlign /\ [][NextAlign]_vars

\* the previous rows in the opposite order
Reversed(q) == [j \in 1..Len(q) |-> q[Len(q) + 1 - j]]

\* C22: _compute_deltas returns exactly one entry per current row, in the
\* order of the current rows; entry i depends only on current row i and the
\* set of previous rows (it is the delta of row i against the previous rows of
\* its key, whatever the other current rows and the order of the previous
\* rows); no current row gives no entry, no previous row gives absent entries
\* only; the table shows entry i in the delta cell of line i, which is row i.
C22_PositionalDeltas ==
    deltas # None =>
        /\ Len(deltas[1]) = Len(cur)
        /\ cur = <<>> => deltas[1] = <<>>
        /\ prev = <<>> => \A i \in 1..Len(cur) : deltas[1][i] = None
        /\ \A i \in 1..Len(cur) :
              LET c == cur[i].tokens.total
                  p == PrevTotal(i)
                  d == deltas[1][i]
              IN  /\ IF SameKey(i) = {} \/ p <= 0 THEN d = None
                      ELSE d # None /\ d[1].num * p = (c - p) * 100 * d[1].den
                  /\ d = _compute_deltas(<<cur[i]>>, Reversed(prev))[1]
        /\ \A k \in 1..Len(out) :
              /\ Len(out[k].lines) = Len(cur)
              /\ \A i \in 1..Len(cur) :
                    /\ out[k].lines[i].row = cur[i]
                    /\ out[k].lines[i].delta # None
                    /\ out[k].lines[i].delta[1] = NoDeltaCell
                          <=> deltas[1][i] = None
                    /\ deltas[1][i] # None =>
                          out[k].lines[i].delta[1] = _fmt_delta(deltas[1][i][1])

\* two current rows of which only the second has a previous row: the first
\* entry is absent, the second is +100 %, and the table shows them on its
\* first and second line
C22_Witness ==
    /\ deltas # None
    /\ out # <<>>
    /\ cur = <<DeltaRow("a", None, 50), DeltaRow("b", None, 200)>>
    /\ prev = <<DeltaRow("b", None, 100)>>
    /\ deltas[1][1] = None
    /\ deltas[1][2] # None
    /\ out[1].lines[1].delta = Some(NoDeltaCell)
    /\ out[1].lines[2].delta[1].arrow = "↑"
    /\ out[1].lines[2].delta[1].percent = Some(100)

-----------------------------------------------------------------------------
(* SpecCompare: main with and without --compare, over every grouping, with  *)
(* and without a limit                                                      *)

\* the models m1 and m2 (the agents a and b, the sessions s1 and s2), each
\* with records of the previous window and of the current one
CompareMsgs ==
    Msgs({"assistant"}, {TokFull(5), TokFull(7)},
         {Some(T1), Some(2 * MsPerDay)},
         {Keys(Some("s1"), Some("m1"), Some("a"), Some("p1")),
          Keys(Some("s2"), Some("m2"), Some("b"), Some("p2"))})

CompareArgvs ==
    {Namespace(None, Some(1), None, by, limit, json_output, compare,
               Some("/data/opencode.db")) :
        by \in {None, Some("day"), Some("model"), Some("agent"),
                Some("provider"), Some("session")},
        limit \in {None, Some(1)},
        json_output \in BOOLEAN, compare \in BOOLEAN}

InitCompare ==
    /\ messages \in Stores(CompareMsgs, MaxStore)
    /\ sessions = [id \in {"s1"} |-> Some("T")]
    /\ tieRule \in {"asc", "desc"}
    /\ last = NoCall
    /\ cur = <<>>
    /\ prev = <<>>
    /\ deltas = None
    /\ clock = Now0
    /\ env = [tz |-> 0, files |-> {"/data/opencode.db"}, OPENCODE_DB |-> None]
    /\ argv \in CompareArgvs
    /\ pc = "parse_args"
    /\ loc = NoLocals
    /\ stmt = None
    /\ conns = 0
    /\ queries = <<>>
    /\ out = <<>>

NextCompare ==
    \/ ParseArgs
    \/ OpenDB
    \/ ResolveSince
    \/ PreviousPeriod
    \/ Connect({})
    \/ Execute({})
    \/ Close
    \/ Output

SpecCompare == InitCompare /\ [][NextCompare]_vars

\* the positions at which main has queried the store
PositionsQueried == {queries[i].at : i \in 1..Len(queries)}

\* the invocation shows the days
IsDaily == argv.by \in {None, Some("day")}

\* the tables main has written
Tables == {i \in 1..Len(out) : out[i].kind = "table"}

\* C23: with compare a previous-window totals row is always produced, and a
\* previous-window row sequence (and with it per-row deltas) only for the
\* views that are not daily: for the daily view no previous row query is made
\* and no row gets a delta; without compare no previous-window query of any
\* kind is made.
C23_PreviousQueries ==
    /\ pc \in {"output", "done"} =>
          /\ argv.compare =>
                /\ "prev_total" \in PositionsQueried
                /\ loc.prev_total # None
          /\ (argv.compare /\ ~IsDaily) => "prev_rows" \in PositionsQueried
    /\ IsDaily =>
          /\ "prev_rows" \notin PositionsQueried
          /\ stmt # None => stmt[1].call.at # "prev_rows"
          /\ loc.prev_rows = <<>>
          /\ \A k \in Tables :
                \A i \in 1..Len(out[k].lines) : out[k].lines[i].delta = None
          /\ \A k \in 1..Len(out) :
                out[k].kind = "json" => "previous_rows" \notin DOMAIN out[k].value
    /\ ~argv.compare =>
          /\ PositionsQueried \subseteq {"rows", "total"}
          /\ stmt # None => stmt[1].call.at \in {"rows", "total"}
          /\ \A i \in 1..Len(queries) : queries[i].until = None
          /\ loc.prev_total = None /\ loc.prev_rows = <<>>
    /\ \A k \in Tables :
          (\E i \in 1..Len(out[k].lines) : out[k].lines[i].delta # None) =>
              argv.compare /\ ~IsDaily /\ loc.prev_rows # <<>>
    /\ \A k \in 1..Len(out) :
          out[k].kind = "json" =>
              ("previous_total" \in DOMAIN out[k].value <=> argv.compare)

\* main --by day --compare on a store with records of both windows has ended
\* after three queries: the previous totals are there, the table has no deltas
C23_Witness ==
    /\ pc = "done"
    /\ argv.by = Some("day") /\ argv.compare /\ ~argv.json_output
    /\ Len(queries) = 3
    /\ loc.prev_total # None /\ loc.prev_total[1].calls > 0
    /\ \E k \in Tables : Len(out[k].lines) > 0

-----------------------------------------------------------------------------
(* SpecSpark: _spark_bar over values and maxima *)

\* values and maxima that are negative, zero, small, equal, and above the
\* maximum
SparkValues == (-1..12) \cup {50, 100, 200}

SparkMaxima == {-10, 0, 1, 7, 8, 100}

InitSpark ==
    /\ messages = <<>>
    /\ sessions = [id \in {} |-> None]
    /\ tieRule = "asc"
    /\ last = NoCall
    /\ cur = <<>>
    /\ prev = <<>>
    /\ deltas = None
    /\ clock = DateTime(0, 0)
    /\ env = [tz |-> 0, files |-> {}]
    /\ argv = <<>>
    /\ pc = "none"
    /\ loc \in [value : SparkValues, max_value : SparkMaxima]
    /\ stmt = None
    /\ conns = 0
    /\ queries = <<>>
    /\ out = <<>>

NextSpark == SparkBar

SpecSpark == InitSpark /\ [][NextSpark]_vars

\* the eight-level scale of the tests of _spark_bar, the lowest block first
SparkLevels == <<"▁", "▂", "▃", "▄", "▅", "▆", "▇", "█">>

\* C25: _spark_bar(value, max_value) returns a single block character of an
\* eight-level scale: the lowest block whenever value <= 0 or max_value <= 0,
\* the full block whenever value >= max_value > 0, and otherwise the level at
\* index floor(value / max_value * 7).
C25_SparkLevel ==
    \A k \in 1..Len(out) :
        out[k].kind = "bar" =>
            out[k].text =
                IF loc.value <= 0 \/ loc.max_value <= 0 THEN SparkLevels[1]
                ELSE IF loc.value >= loc.max_value THEN SparkLevels[8]
                ELSE SparkLevels[((loc.value * 7) \div loc.max_value) + 1]

\* the group of record i in a view, and the matching key of the row of that
\* group
RecordGroup(op, i) ==
    IF op = "by_session" THEN <<messages[i].session_id>>
    ELSE IF op = "by_agent" THEN <<messages[i].agent, messages[i].modelID>>
    ELSE <<KeyOf(op, i)>>

RecordKey(op, i) ==
    MatchingKey([label  |-> GroupLabel(op, RecordGroup(op, i)),
                 detail |-> GroupDetail(op, RecordGroup(op, i))])

\* the total tokens of the qualifying records of the previous window that
\* carry the matching key of row r
PriorActivity(op, r) ==
    LET P == {i \in CountedIn(loc.prev_since, loc.since) :
                 RecordKey(op, i) = MatchingKey(r)}
    IN  FieldSum(P, "total")

\* line i of a table shows no delta: there is no delta column, or the cell
\* is the dash
DeltaAbsent(line) == line.delta = None \/ line.delta[1] = NoDeltaCell

\* C27: with compare on a view that is not daily, for every limit, the delta
\* of a current row is absent only if the qualifying records of the previous
\* window with the row's matching key have a total-token sum <= 0 (or there
\* are none): a group with positive total tokens in the previous window gets
\* a numeric delta.
C27_AbsentOnlyWithoutPrior ==
    (pc = "done" /\ argv.compare /\ ~IsDaily) =>
        \A k \in Tables :
            \A i \in 1..Len(out[k].lines) :
                DeltaAbsent(out[k].lines[i]) =>
                    PriorActivity(ViewOf(loc.group_by), out[k].lines[i].row) <= 0

\* the totals row the store and the window from since on determine
TotalsOf(since) ==
    LET I == CountedIn(Some(since), None)
    IN  UsageRow("total", Cardinality(I),
                 [f \in TokenFields |-> FieldSum(I, f)], FieldSum(I, "cost"),
                 None)

\* C29: the totals row of an invocation depends only on the store and the
\* resolved window: it is the row of calls, token sums and cost of the
\* qualifying records from since on, whatever --by, --limit and --compare
\* are, and this is the row the summary and the JSON output show; cutting the
\* rows by the limit does not change it.
C29_TotalsFrame ==
    /\ (loc # <<>> /\ loc.total # None) => loc.total[1] = TotalsOf(loc.since[1])
    /\ \A k \in 1..Len(out) :
          /\ out[k].kind = "summary" => out[k].total = TotalsOf(loc.since[1])
          /\ out[k].kind = "json" =>
                out[k].value.total = to_dicts(<<TotalsOf(loc.since[1])>>)[1]

\* main --by model --limit 1 on a store with records of two models in the
\* current window: one row is shown, the totals count both records
C29_Witness ==
    /\ pc = "done"
    /\ argv.by = Some("model") /\ argv.limit = Some(1)
    /\ Len(loc.rows) = 1
    /\ loc.rows[1].calls = 1
    /\ loc.total[1].calls = 2
    /\ \E k \in 1..Len(out) : out[k].kind = "summary" /\ out[k].total.calls = 2

-----------------------------------------------------------------------------
(* SpecPeriod: main --compare for every way the period can be given *)

\* a date after the day main runs on: 00:00:00 of day 3
FutureDate == DateTime(3 * MsPerDay, 0)

\* records of yesterday, of this morning, of an hour from now and of day 3
PeriodMsgs ==
    Msgs({"assistant"}, {TokFull(5)},
         {Some(T1), Some(2 * MsPerDay), Some(Now0.ms + MsPerHour),
          Some(3 * MsPerDay + 18 * MsPerHour)},
         {Keys(Some("s1"), Some("m1"), Some("a"), Some("p1"))})

\* today, yesterday, the default, --days N for a positive, zero and negative
\* N, and --since with a relative duration, a past and a future date
PeriodOptions ==
    {<<c, None, None>> : c \in {None, Some("today"), Some("yesterday")}}
    \cup {<<None, Some(n), None>> : n \in {-1, 0, 1}}
    \cup {<<None, None, Some(v)>> :
             v \in {Relative(1, "d"), Relative(12, "h"),
                    IsoDate(DateTime(T1, 0)), IsoDate(FutureDate)}}

PeriodArgvs ==
    {Namespace(t[1], t[2], t[3], by, None, FALSE, TRUE, Some("/data/opencode.db")) :
        t \in PeriodOptions, by \in {None, Some("model")}}

InitPeriod ==
    InitInvocation(PeriodMsgs, {[id \in {"s1"} |-> Some("T")]}, PeriodArgvs,
                   WindowEnvs, {Now0})

NextPeriod ==
    \/ ParseArgs
    \/ OpenDB
    \/ ResolveSince
    \/ PreviousPeriod
    \/ Connect({})
    \/ Execute({})
    \/ Close
    \/ Output
    \/ Tick(Advances, Latest)

SpecPeriod == InitPeriod /\ [][NextPeriod]_vars

\* the record i was created at or after the instant dt
AtOrAfter(i, dt) ==
    /\ messages[i].created # None
    /\ \/ messages[i].created[1] > dt.ms
       \/ (messages[i].created[1] = dt.ms /\ dt.us = 0)

\* C26: with compare the windows of the current and of the previous totals
\* query are disjoint and abut: the previous one ends where the current one
\* starts, no record is counted in both totals, and every qualifying record
\* created at or after prev_since is counted in exactly one of the two.
C26_DisjointAbutting ==
    (pc = "done" /\ argv.compare) =>
        LET qc == QueryMade("total")[1]
            qp == QueryMade("prev_total")[1]
            C  == CountedIn(qc.since, qc.until)
            P  == CountedIn(qp.since, qp.until)
        IN  /\ qp.until = qc.since
            /\ qp.since = loc.prev_since
            /\ loc.total[1].calls = Cardinality(C)
            /\ loc.total[1].tokens.total = FieldSum(C, "total")
            /\ loc.prev_total[1].calls = Cardinality(P)
            /\ loc.prev_total[1].tokens.total = FieldSum(P, "total")
            /\ C \cap P = {}
            /\ \A i \in 1..Len(messages) :
                  (Counted(i) /\ AtOrAfter(i, loc.prev_since[1])) =>
                      i \in C \cup P

\* main --days 1 --compare on a store with a record of each window: each
\* totals row counts one of them
C26_Witness ==
    /\ pc = "done"
    /\ argv.days = Some(1)
    /\ {messages[i].created : i \in 1..Len(messages)}
          = {Some(T1), Some(2 * MsPerDay)}
    /\ loc.total[1].calls = 1
    /\ loc.prev_total[1].calls = 1

\* a is at or before b
NotAfter(a, b) == a.ms < b.ms \/ (a.ms = b.ms /\ a.us <= b.us)

\* C28: with compare the previous window lies before the current one for
\* every way since can be resolved: prev_since <= since, so that
\* [prev_since, since) is an interval of non-negative length.
C28_PreviousBeforeCurrent ==
    (loc # <<>> /\ loc.prev_since # None) =>
        NotAfter(loc.prev_since[1], loc.since[1])

=============================================================================
